---- MODULE Spec2Model ----
(***************************************************************************)
(* State-machine model of the PipeWire native protocol server              *)
(* (src/src/modules/module-protocol-native.c), of the ALSA PCM I/O engine  *)
(* (src/spa/plugins/alsa/alsa-utils.c)                                     *)
(* and of the endpoint and session objects of the session manager          *)
(* (src/src/modules/module-session-manager/endpoint.c, session.c).         *)
(*                                                                         *)
(* The specifications that share the module:                               *)
(*   SpecServer    socket name locking, bind and teardown of servers that  *)
(*                 run as separate processes (system calls interleave);    *)
(*   SpecProtocol  per-client message dispatch on the main loop;           *)
(*   SpecClients   output flushing of several clients;                     *)
(*   SpecRemote    the connection of a remote to its server;               *)
(*   SpecAlsa      buffer queues and frame transfer of one PCM device;     *)
(*   SpecLoops     start and pause of a PCM device on the main loop,       *)
(*                 interleaved with the timer handlers of the data loop;   *)
(*   SpecEnum      enumeration of the params of an endpoint or session;    *)
(*   SpecNotify    param subscriptions and update notifications;           *)
(*   SpecSubscribe subscriptions with more ids than a resource stores;     *)
(*   SpecInfo      info updates and binds of an endpoint or session;       *)
(*   SpecFields    the fields of the info taken by info updates;           *)
(*   SpecFormats   format enumeration and set_format of a PCM device;      *)
(*   SpecRates     set_format with any rate and channel count;             *)
(*   SpecChmap     the clean-up of a channel map (sanitize_map).           *)
(***************************************************************************)
EXTENDS Integers, Sequences, FiniteSets, TLC

VARIABLES
    \* ---- server processes and the file system they share (SpecServer)
    pc,              \* position of each server in impl_add_server / destroy_server
    fd_lock,         \* struct server.fd_lock: inode the fd refers to, or -1
    sun_path,        \* struct server.addr.sun_path[0] != 0
    lock_addr,       \* struct server.lock_addr[0] != 0
    activated,       \* struct server.activated
    source,          \* struct server.source != NULL
    sd_fd,           \* the host passed this process a listening fd for the name
    started_ok,      \* impl_add_server returned the server (history)
    did_unlink_sock, \* destroy_server called unlink(sun_path) (history)
    did_unlink_lock, \* destroy_server called unlink(lock_addr) (history)
    rivals,          \* servers running since before this one began to start (history)
    sockFile,        \* who bound the socket file now at the path, or NoFile
    lockFile,        \* inode now linked at "<path>.lock", or NoInode
    flockHolder,     \* per inode: the server whose open file holds the flock
    sd_listen,       \* the host holds a bound listening socket for the name
    \* ---- clients of one running server (SpecProtocol)
    clients,         \* per client: struct client_data, its pw_client and connection
    client_list,     \* struct pw_protocol_server.client_list, in list order
    \* ---- one PCM device (SpecAlsa)
    state,           \* struct state of alsa-utils.c, with its buffers and io area
    held,            \* buffers the consumer of the device holds
    \* ---- an endpoint or session and its resources (SpecEnum, SpecNotify, SpecInfo)
    owner,           \* struct endpoint / struct session: params and info
    rdata,           \* struct resource_data of each resource: its subscription
    resource_list,   \* global->resource_list, in list order
    out,             \* the last operation and the events it sent (history)
    \* ---- format negotiation of a PCM device (SpecFormats, SpecRates, SpecChmap)
    pcm,             \* what the device offers, state->format/channels/rate/frame_size
    chmap,           \* a channel map before and after sanitize_map
    \* ---- the protocol client of a remote (SpecRemote)
    remote           \* struct client of the remote side, its source and connection

srvVars == <<pc, fd_lock, sun_path, lock_addr, activated, source, sd_fd,
             started_ok, did_unlink_sock, did_unlink_lock, rivals,
             sockFile, lockFile, flockHolder, sd_listen>>

protoVars == <<clients, client_list>>

alsaVars == <<state, held>>

smVars == <<owner, rdata, resource_list, out>>

fmtVars == <<pcm, chmap>>

remoteVars == <<remote>>

vars == <<srvVars, protoVars, alsaVars, smVars, fmtVars, remoteVars>>

\* What an action of one part leaves alone: the state of the other parts.
notServer == <<protoVars, alsaVars, smVars, fmtVars, remoteVars>>

notProtocol == <<srvVars, alsaVars, smVars, fmtVars, remoteVars>>

notAlsa == <<srvVars, protoVars, smVars, fmtVars, remoteVars>>

notSm == <<srvVars, protoVars, alsaVars, fmtVars, remoteVars>>

notFmt == <<srvVars, protoVars, alsaVars, smVars, remoteVars>>

notRemote == <<srvVars, protoVars, alsaVars, smVars, fmtVars>>

----------------------------------------------------------------------------
(* Servers, files and inodes *)

Servers == {"A", "B"}

NoFile == "nofile"
NoInode == -1
NoServer == "none"

\* Each server holds at most one lock fd and one inode is linked at the path,
\* so Cardinality(Servers) + 1 inode numbers are always enough.
Inodes == 1 .. (Cardinality(Servers) + 1)

\* An inode is in use while it is linked or some server has it open.
InodeInUse(i) == lockFile = i \/ \E s \in Servers : fd_lock[s] = i

FreshInode == CHOOSE i \in Inodes : ~InodeInUse(i) /\ \A j \in Inodes : ~InodeInUse(j) => i <= j

ServerInit ==
    /\ pc = [s \in Servers |-> "none"]
    /\ fd_lock = [s \in Servers |-> -1]
    /\ sun_path = [s \in Servers |-> FALSE]
    /\ lock_addr = [s \in Servers |-> FALSE]
    /\ activated = [s \in Servers |-> FALSE]
    /\ source = [s \in Servers |-> FALSE]
    /\ sd_fd = [s \in Servers |-> FALSE]
    /\ started_ok = [s \in Servers |-> FALSE]
    /\ did_unlink_sock = [s \in Servers |-> FALSE]
    /\ did_unlink_lock = [s \in Servers |-> FALSE]
    /\ rivals = [s \in Servers |-> {}]
    /\ sd_listen \in BOOLEAN
    /\ sockFile = IF sd_listen THEN "systemd" ELSE NoFile
    /\ lockFile = NoInode
    /\ flockHolder = [i \in Inodes |-> NoServer]

\* lock_socket's error exits: err_fd closes the fd, err clears both names.
lock_socket_failed(s) ==
    /\ lock_addr' = [lock_addr EXCEPT ![s] = FALSE]
    /\ sun_path' = [sun_path EXCEPT ![s] = FALSE]

\* flock(fd, LOCK_EX | LOCK_NB) on inode i: granted when no other open file
\* holds a lock on the inode.
flock_ex_nb(s, i) == flockHolder[i] = NoServer

\* Mutation of destroy_unlinks_socket: the activation test is dropped.
destroy_unlinks_socket_always(s) == sun_path[s]

\* destroy_server: "if (s->addr.sun_path[0] && !s->activated) unlink(sun_path)"
destroy_unlinks_socket(s) == sun_path[s] /\ ~activated[s]

\* destroy_server: "if (s->lock_addr[0]) unlink(s->lock_addr)"
destroy_unlinks_lock(s) == lock_addr[s]

\* impl_add_server up to init_socket_name: calloc, fd_lock = -1, the socket
\* name.  nameOk: XDG_RUNTIME_DIR is set and the path fits sun_path.
\* sd: the process was handed a listening fd by the host (sd_listen_fds).
AddServerBegin(s, nameOk, sd) ==
    /\ pc[s] = "none"
    /\ sd => (sd_listen /\ \A t \in Servers : ~sd_fd[t])
    /\ fd_lock' = [fd_lock EXCEPT ![s] = -1]
    /\ lock_addr' = [lock_addr EXCEPT ![s] = FALSE]
    /\ activated' = [activated EXCEPT ![s] = FALSE]
    /\ source' = [source EXCEPT ![s] = FALSE]
    /\ sd_fd' = [sd_fd EXCEPT ![s] = sd]
    /\ started_ok' = [started_ok EXCEPT ![s] = FALSE]
    /\ did_unlink_sock' = [did_unlink_sock EXCEPT ![s] = FALSE]
    /\ did_unlink_lock' = [did_unlink_lock EXCEPT ![s] = FALSE]
    /\ sun_path' = [sun_path EXCEPT ![s] = nameOk]
    /\ rivals' = [rivals EXCEPT ![s] = {t \in Servers : pc[t] = "running"}]
    /\ pc' = [pc EXCEPT ![s] = IF nameOk THEN "lock_open" ELSE "unlink_sock"]
    /\ UNCHANGED <<sockFile, lockFile, flockHolder, sd_listen>>
    /\ UNCHANGED notServer

\* lock_socket: snprintf(lock_addr), open(lock_addr, O_CREAT | O_CLOEXEC).
\* ok = FALSE: open fails (permissions).
LockOpen(s, ok) ==
    /\ pc[s] = "lock_open"
    /\ IF ok
       THEN /\ lock_addr' = [lock_addr EXCEPT ![s] = TRUE]
            /\ IF lockFile = NoInode
               THEN /\ lockFile' = FreshInode
                    /\ fd_lock' = [fd_lock EXCEPT ![s] = FreshInode]
               ELSE /\ lockFile' = lockFile
                    /\ fd_lock' = [fd_lock EXCEPT ![s] = lockFile]
            /\ pc' = [pc EXCEPT ![s] = "lock_flock"]
            /\ UNCHANGED sun_path
       ELSE /\ lock_socket_failed(s)
            /\ pc' = [pc EXCEPT ![s] = "unlink_sock"]
            /\ UNCHANGED <<lockFile, fd_lock>>
    /\ UNCHANGED <<activated, source, sd_fd, started_ok, did_unlink_sock,
                   did_unlink_lock, sockFile, flockHolder, sd_listen, rivals>>
    /\ UNCHANGED notServer

\* lock_socket: flock(fd_lock, LOCK_EX | LOCK_NB); on failure close the fd.
LockFlock(s) ==
    /\ pc[s] = "lock_flock"
    /\ IF flock_ex_nb(s, fd_lock[s])
       THEN /\ flockHolder' = [flockHolder EXCEPT ![fd_lock[s]] = s]
            /\ pc' = [pc EXCEPT ![s] = "add_socket"]
            /\ UNCHANGED <<fd_lock, lock_addr, sun_path>>
       ELSE /\ fd_lock' = [fd_lock EXCEPT ![s] = -1]
            /\ lock_socket_failed(s)
            /\ pc' = [pc EXCEPT ![s] = "unlink_sock"]
            /\ UNCHANGED flockHolder
    /\ UNCHANGED <<activated, source, sd_fd, started_ok, did_unlink_sock,
                   did_unlink_lock, sockFile, lockFile, sd_listen, rivals>>
    /\ UNCHANGED notServer

\* add_socket: adopt the activation fd, or socket() and bind().  bind fails
\* with EADDRINUSE when a file exists at the path.
AddSocketBind(s) ==
    /\ pc[s] = "add_socket"
    /\ IF sd_fd[s]
       THEN /\ pc' = [pc EXCEPT ![s] = "add_io"]
            /\ UNCHANGED sockFile
       ELSE IF sockFile = NoFile
       THEN /\ sockFile' = s
            /\ pc' = [pc EXCEPT ![s] = "listen"]
       ELSE /\ pc' = [pc EXCEPT ![s] = "unlink_sock"]
            /\ UNCHANGED sockFile
    /\ UNCHANGED <<fd_lock, sun_path, lock_addr, activated, source, sd_fd,
                   started_ok, did_unlink_sock, did_unlink_lock,
                   lockFile, flockHolder, sd_listen, rivals>>
    /\ UNCHANGED notServer

\* add_socket: listen(fd, 128).
AddSocketListen(s, ok) ==
    /\ pc[s] = "listen"
    /\ pc' = [pc EXCEPT ![s] = IF ok THEN "add_io" ELSE "unlink_sock"]
    /\ UNCHANGED <<fd_lock, sun_path, lock_addr, activated, source, sd_fd,
                   started_ok, did_unlink_sock, did_unlink_lock,
                   sockFile, lockFile, flockHolder, sd_listen, rivals>>
    /\ UNCHANGED notServer

\* add_socket: pw_loop_add_io, s->activated = activated; then impl_add_server
\* adds the loop hook and returns the server.  ok = FALSE: add_io fails.
AddSocketSource(s, ok) ==
    /\ pc[s] = "add_io"
    /\ source' = [source EXCEPT ![s] = ok]
    /\ activated' = [activated EXCEPT ![s] = sd_fd[s]]
    /\ started_ok' = [started_ok EXCEPT ![s] = ok]
    /\ pc' = [pc EXCEPT ![s] = IF ok THEN "running" ELSE "unlink_sock"]
    /\ UNCHANGED <<fd_lock, sun_path, lock_addr, sd_fd, did_unlink_sock,
                   did_unlink_lock, sockFile, lockFile, flockHolder, sd_listen, rivals>>
    /\ UNCHANGED notServer

\* destroy_server of a running server: clients destroyed, hook and source
\* removed.
DestroyServerBegin(s) ==
    /\ pc[s] = "running"
    /\ source' = [source EXCEPT ![s] = FALSE]
    /\ pc' = [pc EXCEPT ![s] = "unlink_sock"]
    /\ rivals' = [t \in Servers |-> rivals[t] \ {s}]
    /\ UNCHANGED <<fd_lock, sun_path, lock_addr, activated, sd_fd,
                   started_ok, did_unlink_sock, did_unlink_lock,
                   sockFile, lockFile, flockHolder, sd_listen>>
    /\ UNCHANGED notServer

\* destroy_server: unlink(s->addr.sun_path) removes whatever is at the path.
DestroyUnlinkSock(s) ==
    /\ pc[s] = "unlink_sock"
    /\ IF destroy_unlinks_socket(s)
       THEN /\ sockFile' = NoFile
            /\ did_unlink_sock' = [did_unlink_sock EXCEPT ![s] = TRUE]
       ELSE UNCHANGED <<sockFile, did_unlink_sock>>
    /\ pc' = [pc EXCEPT ![s] = "unlink_lock"]
    /\ UNCHANGED <<fd_lock, sun_path, lock_addr, activated, source, sd_fd,
                   started_ok, did_unlink_lock, lockFile, flockHolder, sd_listen, rivals>>
    /\ UNCHANGED notServer

\* destroy_server: unlink(s->lock_addr) removes whatever is at the path.
DestroyUnlinkLock(s) ==
    /\ pc[s] = "unlink_lock"
    /\ IF destroy_unlinks_lock(s)
       THEN /\ lockFile' = NoInode
            /\ did_unlink_lock' = [did_unlink_lock EXCEPT ![s] = TRUE]
       ELSE UNCHANGED <<lockFile, did_unlink_lock>>
    /\ pc' = [pc EXCEPT ![s] = "close_lock"]
    /\ UNCHANGED <<fd_lock, sun_path, lock_addr, activated, source, sd_fd,
                   started_ok, did_unlink_sock, sockFile, flockHolder, sd_listen, rivals>>
    /\ UNCHANGED notServer

\* destroy_server: close(s->fd_lock) releases the flock; free(s).
DestroyCloseLock(s) ==
    /\ pc[s] = "close_lock"
    /\ IF fd_lock[s] # -1
       THEN flockHolder' = [flockHolder EXCEPT ![fd_lock[s]] =
                               IF @ = s THEN NoServer ELSE @]
       ELSE UNCHANGED flockHolder
    /\ fd_lock' = [fd_lock EXCEPT ![s] = -1]
    /\ pc' = [pc EXCEPT ![s] = "freed"]
    /\ UNCHANGED <<sun_path, lock_addr, activated, source, sd_fd,
                   started_ok, did_unlink_sock, did_unlink_lock,
                   sockFile, lockFile, sd_listen, rivals>>
    /\ UNCHANGED notServer

\* The process is gone; the name may be used by a new process.
ServerExit(s) ==
    /\ pc[s] = "freed"
    /\ pc' = [pc EXCEPT ![s] = "none"]
    /\ sd_fd' = [sd_fd EXCEPT ![s] = FALSE]
    /\ UNCHANGED <<fd_lock, sun_path, lock_addr, activated, source,
                   started_ok, did_unlink_sock, did_unlink_lock,
                   sockFile, lockFile, flockHolder, sd_listen, rivals>>
    /\ UNCHANGED notServer

ServerNext ==
    \/ \E s \in Servers, nameOk \in BOOLEAN, sd \in BOOLEAN : AddServerBegin(s, nameOk, sd)
    \/ \E s \in Servers, ok \in BOOLEAN : LockOpen(s, ok)
    \/ \E s \in Servers : LockFlock(s)
    \/ \E s \in Servers : AddSocketBind(s)
    \/ \E s \in Servers, ok \in BOOLEAN : AddSocketListen(s, ok)
    \/ \E s \in Servers, ok \in BOOLEAN : AddSocketSource(s, ok)
    \/ \E s \in Servers : DestroyServerBegin(s)
    \/ \E s \in Servers : DestroyUnlinkSock(s)
    \/ \E s \in Servers : DestroyUnlinkLock(s)
    \/ \E s \in Servers : DestroyCloseLock(s)
    \/ \E s \in Servers : ServerExit(s)


----------------------------------------------------------------------------
(* Protocol server: clients, connections and message dispatch *)

Clients == {"c1", "c2"}

\* Frames a peer may send on one connection before the model stops it.
MaxFrames == 3

EAGAIN == 11
EPIPE == 32

\* Resource ids: the core resource and the client resource are bound by
\* client_new; BoundId is bound later by a core method; UnknownId is never
\* bound.
CoreId == 0
ClientId == 1
BoundId == ClientId + 1
UnknownId == ClientId + 8

\* Permissions each resource is bound with: client_new binds the core and the
\* client global with PW_PERM_RWX; the later bind grants R and X only.
Permissions(id) == IF id = BoundId THEN {"R", "X"} ELSE {"R", "W", "X"}

\* The method table of the resources' interface (struct pw_protocol_marshal):
\* per opcode the required permissions and whether a demarshal function is
\* installed.  Opcode i is Methods[i + 1].
Methods == << [permissions |-> {},    func |-> TRUE],
              [permissions |-> {"W"}, func |-> TRUE],
              [permissions |-> {"R"}, func |-> FALSE] >>

n_methods == Len(Methods)

\* What the method handler does with the payload of a frame: return 0 ("ok"),
\* return a negative value ("fail"), set the client busy ("busy"), bind
\* BoundId ("bind"), destroy the target resource ("rm").
Frames ==
    { [id |-> CoreId, opcode |-> 0, eff |-> e] : e \in {"ok", "fail", "busy", "bind"} }
    \cup { [id |-> BoundId, opcode |-> 0, eff |-> "rm"] }
    \cup { [id |-> CoreId, opcode |-> o, eff |-> "ok"] : o \in {2, 3} }
    \cup { [id |-> BoundId, opcode |-> 1, eff |-> "ok"] }
    \cup { [id |-> UnknownId, opcode |-> 0, eff |-> "ok"] }

FlushRes == {"ok", "again", "err"}

\* The event sets the loop reports to connection_data in the model.
Events == { {"HUP"}, {"ERR"}, {"OUT"}, {"IN"}, {"IN", "OUT"}, {"IN", "HUP"} }

NoClient ==
    [status |-> "unborn", busy |-> FALSE, mask |-> {}, pending_out |-> FALSE,
     sock |-> <<>>, conn |-> <<>>, res |-> {}, recv_seq |-> 0, sent |-> 0,
     draining |-> FALSE, killed_by |-> [why |-> "none", seq |-> 0],
     yielded |-> <<>>, invoked |-> <<>>, errs |-> <<>>]

ProtoIdle ==
    /\ clients = [c \in Clients |-> NoClient]
    /\ client_list = <<>>

Range(seq) == { seq[k] : k \in 1 .. Len(seq) }

\* The value of F for e, with e evaluated once.
Bind(e, F(_)) == CHOOSE r \in { F(x) : x \in {e} } : TRUE

\* pw_client_find_resource(client, id) != NULL
find_resource(st, id) == id \in st.res

\* "msg->opcode >= marshal->n_methods" does not hold
opcode_in_range(opcode) == opcode < n_methods

\* "required = demarshal[msg->opcode].permissions | PW_PERM_X"
required_permissions(opcode) == Methods[opcode + 1].permissions \cup {"X"}

\* Mutation of has_permissions: any required bit is enough.
has_permissions_some(required, permissions) == (required \cap permissions) # {}

\* "(required & permissions) != required" does not hold
has_permissions(required, permissions) == (required \cap permissions) = required

\* pw_resource_error(resource, res, ...): one error event for resource `on`
\* is written to the client's connection.
resource_error(st, m, on, errno) ==
    [st EXCEPT !.errs = Append(@, [seq |-> m.seq, on |-> on, errno |-> errno]),
               !.pending_out = TRUE]

\* pw_client_destroy(client) -> client_free: the source and the connection
\* are destroyed with their buffers (the client leaves client_list in the
\* calling action).  killed_by records the call site: process_messages for a
\* frame (with its seq), a loop callback ("loop") or client_new ("accept").
\* Mutation of client_destroy: the source of the client stays in the loop.
client_destroy_keeps_source(st, why, seq) ==
    [st EXCEPT !.status = "destroyed", !.busy = FALSE,
               !.conn = <<>>, !.sock = <<>>, !.pending_out = FALSE,
               !.killed_by = [why |-> why, seq |-> seq]]

client_destroy(st, why, seq) ==
    [st EXCEPT !.status = "destroyed", !.mask = {}, !.busy = FALSE,
               !.conn = <<>>, !.sock = <<>>, !.pending_out = FALSE,
               !.killed_by = [why |-> why, seq |-> seq]]

\* pw_protocol_native_connection_get_next: yields the next whole frame of the
\* read buffer, refilling the buffer from the socket when it is exhausted;
\* res = 1 with a frame, 0 without.
get_next(st) ==
    LET s1 == IF st.conn = <<>> THEN [st EXCEPT !.conn = st.sock, !.sock = <<>>] ELSE st
    IN  IF s1.conn = <<>>
        THEN [res |-> 0, st |-> s1, msg |-> [id |-> 0, opcode |-> 0, eff |-> "ok", seq |-> 0]]
        ELSE [res |-> 1, st |-> [s1 EXCEPT !.conn = Tail(@)], msg |-> Head(s1.conn)]

\* pw_protocol_native_connection_flush: 0 when everything pending was written,
\* -EAGAIN when the socket took only a part, another negative errno on error.
flush(st, fl) ==
    IF ~st.pending_out \/ fl = "ok"
    THEN [res |-> 0, st |-> [st EXCEPT !.pending_out = FALSE]]
    ELSE [res |-> IF fl = "again" THEN -EAGAIN ELSE -EPIPE, st |-> st]

RECURSIVE process_messages(_)
RECURSIVE client_busy_changed(_, _)

\* "demarshal[msg->opcode].func(resource, msg)": the method handler runs.  The
\* entry added to `invoked` records the frame with the busy flag and the
\* resources at the time of the call.
invoke(st, m) ==
    LET s1 == [st EXCEPT !.invoked = Append(@, [msg |-> m, busy |-> st.busy, res |-> st.res])]
    IN  CASE m.eff = "fail" -> [ret |-> -1, st |-> s1]
          [] m.eff = "busy" -> [ret |-> 0, st |-> client_busy_changed(s1, TRUE)]
          [] m.eff = "bind" -> [ret |-> 0, st |-> [s1 EXCEPT !.res = @ \cup {BoundId}]]
          [] m.eff = "rm"   -> [ret |-> 0, st |-> [s1 EXCEPT !.res = @ \ {m.id}]]
          [] OTHER          -> [ret |-> 0, st |-> s1]

\* Mutation of invalid: the client is not destroyed.
invalid_keeps_client(st, m) ==
    resource_error(st, m, m.id, "EINVAL")

\* process_messages, labels invalid_method and invalid_message: the error is
\* sent on the resource and the client is destroyed.
invalid(st, m) ==
    client_destroy(resource_error(st, m, m.id, "EINVAL"), "frame", m.seq)

\* Mutation of unknown_resource: the frame is dropped without a reply.
unknown_resource_silent(st, m) == st

\* process_messages, "if (resource == NULL)": the error goes to the client's
\* core resource and the loop continues.
unknown_resource(st, m) ==
    resource_error(st, m, CoreId, "EINVAL")

\* Mutation of permission_denied: a denied method ends the connection.
permission_denied_fatal(st, m) ==
    client_destroy(resource_error(st, m, m.id, "EACCES"), "frame", m.seq)

\* process_messages, "if ((required & permissions) != required)": the error
\* goes to the resource and the loop continues.
permission_denied(st, m) ==
    resource_error(st, m, m.id, "EACCES")

\* Mutation of handle_message: recv_seq is recorded only once the target
\* resource of the frame was found.
handle_message_seq_after_lookup(st0, m) ==
    LET st == [st0 EXCEPT !.recv_seq = IF find_resource(st0, m.id) THEN m.seq ELSE @,
                          !.yielded = Append(@, [msg |-> m, res |-> st0.res,
                                                 drain |-> st0.draining])]
    IN  IF ~find_resource(st, m.id)
        THEN [done |-> FALSE, st |-> unknown_resource(st, m)]
        ELSE IF ~opcode_in_range(m.opcode)
        THEN [done |-> TRUE, st |-> invalid(st, m)]
        ELSE IF ~Methods[m.opcode + 1].func
        THEN [done |-> TRUE, st |-> invalid(st, m)]
        ELSE IF ~has_permissions(required_permissions(m.opcode), Permissions(m.id))
        THEN [done |-> FALSE, st |-> permission_denied(st, m)]
        ELSE LET r == invoke(st, m)
             IN  IF r.ret < 0
                 THEN [done |-> TRUE, st |-> invalid(r.st, m)]
                 ELSE [done |-> FALSE, st |-> r.st]

\* process_messages, the body of the loop for one frame; done = TRUE when the
\* function leaves the loop through "goto".  The entry added to `yielded`
\* records the frame get_next yielded, the resources the client had then and
\* whether the loop was entered from client_busy_changed.
handle_message(st0, m) ==
    LET st == [st0 EXCEPT !.recv_seq = m.seq,
                          !.yielded = Append(@, [msg |-> m, res |-> st0.res,
                                                 drain |-> st0.draining])]
    IN  IF ~find_resource(st, m.id)
        THEN [done |-> FALSE, st |-> unknown_resource(st, m)]
        ELSE IF ~opcode_in_range(m.opcode)
        THEN [done |-> TRUE, st |-> invalid(st, m)]
        ELSE IF ~Methods[m.opcode + 1].func
        THEN [done |-> TRUE, st |-> invalid(st, m)]
        ELSE IF ~has_permissions(required_permissions(m.opcode), Permissions(m.id))
        THEN [done |-> FALSE, st |-> permission_denied(st, m)]
        ELSE LET r == invoke(st, m)
             IN  IF r.ret < 0
                 THEN [done |-> TRUE, st |-> invalid(r.st, m)]
                 ELSE [done |-> FALSE, st |-> r.st]

\* Mutation of loop_continues: the busy flag is not looked at.
loop_continues_always(st) == TRUE

\* "while (!data->busy)" of process_messages
loop_continues(st) == ~st.busy

\* process_messages(data)
process_messages(st) ==
    IF ~loop_continues(st)
    THEN st
    ELSE LET n == get_next(st)
         IN  IF n.res # 1
             THEN n.st
             ELSE LET r == handle_message(n.st, n.msg)
                  IN  IF r.done THEN r.st ELSE process_messages(r.st)

\* The source mask client_busy_changed installs.
busy_mask(mask, busy) == IF busy THEN mask \ {"IN"} ELSE mask \cup {"IN"}

\* Mutation of client_busy_changed: the buffered frames are not processed
\* when busy clears.
client_busy_changed_no_drain(st, busy) ==
    [st EXCEPT !.busy = busy, !.mask = busy_mask(st.mask, busy)]

\* client_busy_changed(data, busy)
client_busy_changed(st, busy) ==
    LET s1 == [st EXCEPT !.busy = busy, !.mask = busy_mask(st.mask, busy)]
    IN  IF ~busy
        THEN [process_messages([s1 EXCEPT !.draining = TRUE]) EXCEPT !.draining = FALSE]
        ELSE s1

\* socket_data: "if (!client->busy) pw_loop_update_io(..., mask | SPA_IO_IN)"
accept_mask(st) == IF ~st.busy THEN st.mask \cup {"IN"} ELSE st.mask

\* connection_data, the SPA_IO_OUT branch; gone = TRUE when the client was
\* destroyed and the function returned.
connection_data_out(st, fl) ==
    LET f == flush(st, fl)
    IN  IF f.res >= 0
        THEN [gone |-> FALSE, st |-> [f.st EXCEPT !.mask = @ \ {"OUT"}]]
        ELSE IF f.res # EAGAIN
        THEN [gone |-> TRUE, st |-> client_destroy(f.st, "loop", 0)]
        ELSE [gone |-> FALSE, st |-> f.st]

\* connection_data(data, fd, mask)
connection_data(st, ev, fl) ==
    IF "HUP" \in ev THEN client_destroy(st, "loop", 0)
    ELSE IF "ERR" \in ev THEN client_destroy(st, "loop", 0)
    ELSE LET o == IF "OUT" \in ev THEN connection_data_out(st, fl)
                  ELSE [gone |-> FALSE, st |-> st]
         IN  IF o.gone THEN o.st
             ELSE IF "IN" \in ev THEN process_messages(o.st)
             ELSE o.st

\* on_before_hook, the body of the loop for one client
before_hook_client(st, fl) ==
    LET f == flush(st, fl)
    IN  IF f.res = -EAGAIN
        THEN [f.st EXCEPT !.mask = @ \cup {"OUT"}]
        ELSE IF f.res < 0
        THEN client_destroy(f.st, "hook", 0)
        ELSE f.st

\* Mutation of on_before_hook: the iteration ends at the first client it
\* destroys.
RECURSIVE on_before_hook_stops(_, _, _)
on_before_hook_stops(list, cs, fr) ==
    IF list = <<>> THEN cs
    ELSE Bind(before_hook_client(cs[Head(list)], fr[Head(list)]), LAMBDA st :
           IF st.status = "destroyed"
           THEN [cs EXCEPT ![Head(list)] = st]
           ELSE on_before_hook_stops(Tail(list), [cs EXCEPT ![Head(list)] = st], fr))

\* on_before_hook: spa_list_for_each_safe over client_list; the next client
\* is read before the body runs, so the walk goes on after a client was
\* destroyed.
RECURSIVE on_before_hook(_, _, _)
on_before_hook(list, cs, fr) ==
    IF list = <<>> THEN cs
    ELSE Bind(before_hook_client(cs[Head(list)], fr[Head(list)]), LAMBDA st :
           on_before_hook(Tail(list), [cs EXCEPT ![Head(list)] = st], fr))

\* The clients of a list that are still linked in client_list.
Linked(list, cs) == SelectSeq(list, LAMBDA c : cs[c].status = "alive")

\* socket_data: accept4, client_new, and IN armed unless the client is busy.
\* ok = FALSE: client_new fails and the fd is closed.  busyNow: a listener of
\* the new client's registration set it busy (pw_client_set_busy) before
\* client_new returned.
Accept(c, ok, busyNow) ==
    /\ clients[c].status = "unborn"
    /\ LET s0 == [clients[c] EXCEPT !.status = "alive",
                                    !.mask = {"ERR", "HUP"},
                                    !.res = {CoreId, ClientId}]
           s1 == IF busyNow THEN client_busy_changed(s0, TRUE) ELSE s0
           s2 == IF ok THEN [s1 EXCEPT !.mask = accept_mask(s1)]
                 ELSE client_destroy(s1, "accept", 0)
       IN  /\ clients' = [clients EXCEPT ![c] = s2]
           /\ client_list' = IF ok THEN Append(client_list, c) ELSE client_list
    /\ UNCHANGED notProtocol

\* The peer writes one frame to its socket.
Recv(c, f) ==
    /\ clients[c].status = "alive"
    /\ clients[c].sent < MaxFrames
    /\ clients' = [clients EXCEPT ![c] =
          [@ EXCEPT !.sent = @ + 1,
                    !.sock = Append(@, [id |-> f.id, opcode |-> f.opcode,
                                        eff |-> f.eff, seq |-> clients[c].sent + 1])]]
    /\ UNCHANGED client_list
    /\ UNCHANGED notProtocol

\* The main loop reports events ev on the client's socket: connection_data.
\* IN is reported only while the socket holds unread data; fl is the outcome
\* of the flush, if one is attempted.
ConnectionData(c, ev, fl) ==
    /\ clients[c].status = "alive"
    /\ ev # {}
    /\ ev \subseteq clients[c].mask
    /\ ("IN" \in ev) => clients[c].sock # <<>>
    /\ ("OUT" \notin ev) => fl = "ok"
    /\ clients' = [clients EXCEPT ![c] = connection_data(@, ev, fl)]
    /\ client_list' = Linked(client_list, clients')
    /\ UNCHANGED notProtocol

\* The asynchronous action a busy client waited for completes: its module
\* calls pw_client_set_busy(client, false), and the busy_changed event runs
\* client_busy_changed.
BusyCleared(c) ==
    /\ clients[c].status = "alive"
    /\ clients[c].busy
    /\ clients' = [clients EXCEPT ![c] = client_busy_changed(@, FALSE)]
    /\ client_list' = Linked(client_list, clients')
    /\ UNCHANGED notProtocol

\* on_before_hook: before the loop blocks, flush every client of the list.
OnBeforeHook(fr) ==
    /\ client_list # <<>>
    /\ \A c \in Clients :
         (clients[c].status # "alive" \/ ~clients[c].pending_out) => fr[c] = "ok"
    /\ clients' = on_before_hook(client_list, clients, fr)
    /\ client_list' = Linked(client_list, clients')
    /\ UNCHANGED notProtocol

\* destroy_server: every client of the list is destroyed.
DestroyClients ==
    /\ client_list # <<>>
    /\ clients' = [c \in Clients |->
                      IF c \in Range(client_list)
                      THEN client_destroy(clients[c], "server", 0)
                      ELSE clients[c]]
    /\ client_list' = <<>>
    /\ UNCHANGED notProtocol

\* The server queues an event for the client on its connection, as the core
\* does with its info when client_new binds the core global.
SendEvent(c) ==
    /\ clients[c].status = "alive"
    /\ ~clients[c].pending_out
    /\ clients' = [clients EXCEPT ![c].pending_out = TRUE]
    /\ UNCHANGED client_list
    /\ UNCHANGED notProtocol

ProtoNext ==
    \/ \E ok \in BOOLEAN, busyNow \in BOOLEAN : Accept("c1", ok, busyNow)
    \/ \E f \in Frames : Recv("c1", f)
    \/ \E ev \in Events, fl \in FlushRes : ConnectionData("c1", ev, fl)
    \/ BusyCleared("c1")
    \/ \E fr \in [Clients -> FlushRes] : OnBeforeHook(fr)
    \/ DestroyClients

\* Several clients of one server whose peers send nothing.
ClientsNext ==
    \/ \E c \in Clients, ok \in BOOLEAN, busyNow \in BOOLEAN : Accept(c, ok, busyNow)
    \/ \E c \in Clients : SendEvent(c)
    \/ \E c \in Clients, ev \in Events, fl \in FlushRes : ConnectionData(c, ev, fl)
    \/ \E c \in Clients : BusyCleared(c)
    \/ \E fr \in [Clients -> FlushRes] : OnBeforeHook(fr)
    \/ DestroyClients

----------------------------------------------------------------------------
(* The client side of the protocol: struct client of a pw_remote, connected
   to a server by impl_connect_fd and served by on_remote_data on the main
   loop of the remote. *)

\* struct client after impl_new_client (calloc): no connection, no source.
\* mask is source->mask of the current source; send_seq counts the messages
\* marshalled on the current connection, recv_seq those taken from it.
NoRemote ==
    [connection |-> FALSE, source |-> FALSE, mask |-> {},
     flushing |-> FALSE, disconnecting |-> FALSE, pending_out |-> FALSE,
     send_seq |-> 0, recv_seq |-> 0]

RemoteIdle == remote = NoRemote

\* on_need_flush(data)
on_need_flush(st) ==
    IF ~st.flushing
    THEN [st EXCEPT !.flushing = TRUE, !.mask = @ \cup {"OUT"}]
    ELSE st

\* impl_connect_fd(client, fd)
impl_connect_fd(st, connOk, sourceOk) ==
    IF ~connOk THEN [st EXCEPT !.disconnecting = FALSE]
    ELSE IF ~sourceOk
    THEN [st EXCEPT !.disconnecting = FALSE, !.connection = TRUE,
                    !.pending_out = FALSE, !.send_seq = 0, !.recv_seq = 0]
    ELSE [st EXCEPT !.disconnecting = FALSE, !.connection = TRUE,
                    !.pending_out = FALSE, !.send_seq = 0, !.recv_seq = 0,
                    !.source = TRUE, !.mask = {"IN", "HUP", "ERR"}]

\* impl_disconnect(client)
impl_disconnect(st) ==
    [st EXCEPT !.disconnecting = TRUE, !.source = FALSE, !.mask = {},
               !.connection = FALSE, !.pending_out = FALSE]

\* on_remote_data from the label error: the source is destroyed and
\* pw_remote_disconnect disconnects the protocol client.
remote_error(st) == impl_disconnect([st EXCEPT !.source = FALSE, !.mask = {}])

\* on_remote_data, the SPA_IO_IN branch with n messages to take
remote_data_in(st, n) ==
    IF st.disconnecting THEN st ELSE [st EXCEPT !.recv_seq = @ + n]

\* on_remote_data(data, fd, mask)
on_remote_data(st, ev, fl, n) ==
    IF ev \cap {"ERR", "HUP"} # {} THEN remote_error(st)
    ELSE IF "OUT" \in ev
    THEN Bind(flush(st, fl), LAMBDA f :
           IF f.res >= 0
           THEN Bind([f.st EXCEPT !.mask = @ \ {"OUT"}, !.flushing = FALSE],
                     LAMBDA s1 : IF "IN" \in ev THEN remote_data_in(s1, n) ELSE s1)
           ELSE IF f.res # EAGAIN THEN remote_error(f.st)
           ELSE IF "IN" \in ev THEN remote_data_in(f.st, n) ELSE f.st)
    ELSE IF "IN" \in ev THEN remote_data_in(st, n)
    ELSE st

\* The remote connects: impl_connect_fd is called with the socket.
ConnectFd(connOk, sourceOk) ==
    /\ ~remote.connection /\ ~remote.source
    /\ ~connOk => sourceOk
    /\ remote' = impl_connect_fd(remote, connOk, sourceOk)
    /\ UNCHANGED notRemote

\* A proxy of the remote marshals a method: the connection has bytes to send
\* and emits need_flush.
NeedFlush ==
    /\ remote.connection /\ remote.source
    /\ remote.send_seq < MaxFrames
    /\ remote' = on_need_flush([remote EXCEPT !.pending_out = TRUE, !.send_seq = @ + 1])
    /\ UNCHANGED notRemote

\* The loop reports events on the socket of the remote.
RemoteData(ev, fl, n) ==
    /\ remote.source
    /\ ev \subseteq remote.mask
    /\ "IN" \notin ev => n = 0
    /\ ("OUT" \notin ev \/ ev \cap {"ERR", "HUP"} # {}) => fl = "ok"
    /\ ev \cap {"ERR", "HUP"} # {} => n = 0
    /\ remote.recv_seq + n <= MaxFrames
    /\ remote' = on_remote_data(remote, ev, fl, n)
    /\ UNCHANGED notRemote

\* The remote disconnects.
Disconnect ==
    /\ remote' = impl_disconnect(remote)
    /\ UNCHANGED notRemote

RemoteNext ==
    \/ \E c, o \in BOOLEAN : ConnectFd(c, o)
    \/ NeedFlush
    \/ \E ev \in Events, fl \in FlushRes, n \in 0 .. 1 : RemoteData(ev, fl, n)
    \/ Disconnect

----------------------------------------------------------------------------
(* ALSA PCM device: spa/plugins/alsa/alsa-utils.c.  One struct state with its
   n_buffers buffers; the handlers run one at a time. *)

NBuffers == 2

\* state->buffer_frames, the size of the device ring in frames
BufferFrames == 3

\* d[0].maxsize of every buffer, in bytes
MaxSize == 2

\* sample_count is followed up to this value
MaxSamples == 4

\* ((uint32_t) -1)
SPA_ID_INVALID == -1

\* uint32_t arithmetic wraps at 2^32, above the integers of the model checker.
\* A difference that wrapped is only ever compared with a frame count of at
\* most BufferFrames, so wrapping at 2^30 gives the same results.
U32 == 2 ^ 30

Buffers == 0 .. (NBuffers - 1)

Min(a, b) == IF a < b THEN a ELSE b


\* What the last wakeup saw when alsa_recover returned 0, if it ran one.
NoRecovery == [done |-> FALSE, alsa_started |-> FALSE, dll_bw |-> "NONE", hw |-> 0]

\* What the last wakeup or start did: whether it took the early-wakeup branch;
\* whether a spa_alsa_write ran to its end, with its start argument and
\* whether its total_written was above 0; whether the capture loop ran, with
\* its to_read, its total_read and whether a pass committed more frames than
\* mmap-begin granted; whether handle_play came to test the ready queue (play),
\* whether it found it empty, and whether the ready callback was called with
\* NEED_BUFFER.
NoTransfer ==
    [early |-> FALSE, write |-> FALSE, start |-> FALSE, wrote |-> FALSE,
     read |-> FALSE, to_read |-> 0, total |-> 0, over |-> FALSE,
     play |-> FALSE, empty |-> FALSE, need |-> FALSE]

\* state->next_time before anything has set it
NoTime == [base |-> "none", frames |-> 0]

\* The state after the device was opened and its format and buffers were set:
\* nothing is queued, the consumer holds the buffers.  main is where the main
\* loop stands in spa_alsa_start or spa_alsa_pause ("idle" between calls);
\* woken tells that a timer handler has run since the last start began.
AlsaInit ==
    /\ \E st \in {"playback", "capture"}, fs \in {1, 2}, th \in {1, 2} :
         state = [ stream |-> st, frame_size |-> fs, threshold |-> th,
                   started |-> FALSE, alsa_started |-> FALSE, slaved |-> FALSE,
                   source |-> FALSE, armed |-> FALSE,
                   free |-> <<>>, ready |-> <<>>, ready_offset |-> 0,
                   flags |-> IF st = "playback" THEN Buffers ELSE {},
                   size |-> [b \in Buffers |-> 0],
                   io_status |-> "OK", io_buffer_id |-> SPA_ID_INVALID,
                   sample_count |-> 0, sample_time |-> 0, dll_bw |-> "NONE",
                   rec |-> NoRecovery, hw |-> 0, hung |-> FALSE,
                   off |-> 0, touched |-> FALSE, xfer |-> NoTransfer,
                   next_time |-> NoTime, main |-> "idle", woken |-> FALSE ]
    /\ held = Buffers

AlsaIdle ==
    /\ state = [ stream |-> "capture", frame_size |-> 1, threshold |-> 1,
                 started |-> FALSE, alsa_started |-> FALSE, slaved |-> FALSE,
                 source |-> FALSE, armed |-> FALSE,
                 free |-> <<>>, ready |-> <<>>, ready_offset |-> 0,
                 flags |-> {}, size |-> [b \in Buffers |-> 0],
                 io_status |-> "OK", io_buffer_id |-> SPA_ID_INVALID,
                 sample_count |-> 0, sample_time |-> 0, dll_bw |-> "NONE",
                   rec |-> NoRecovery, hw |-> 0, hung |-> FALSE,
                   off |-> 0, touched |-> FALSE, xfer |-> NoTransfer,
                   next_time |-> NoTime, main |-> "idle", woken |-> FALSE ]
    /\ held = Buffers

\* spa_alsa_write, one pass of the loop "while (!spa_list_is_empty(
\* &state->ready) && to_write > 0)" on the first ready buffer: the frames it
\* copies and the state after it.  avail is a uint32_t.  Nobody reads the
\* chunk size of a buffer that is not queued: it is kept as 0.
write_buffer(st, to_write) ==
    LET b == Head(st.ready)
        size == st.size[b]
        avail == ((size - st.ready_offset) % U32) \div st.frame_size
        n_frames == Min(avail, to_write)
        ready_offset == st.ready_offset + n_frames * st.frame_size
    IN  [ n_frames |-> n_frames,
          removed |-> ready_offset >= size,
          st |-> IF ready_offset >= size
                 THEN [st EXCEPT !.ready = Tail(@),
                                 !.flags = @ \cup {b},
                                 !.io_buffer_id = b,
                                 !.ready_offset = 0,
                                 !.size[b] = 0,
                                 !.touched = FALSE]
                 ELSE [st EXCEPT !.ready_offset = ready_offset,
                                 !.touched = @ \/ n_frames > 0] ]

\* spa_alsa_write, the loop "while (!spa_list_is_empty(&state->ready) &&
\* to_write > 0)".  A pass that copies no frame and leaves the first buffer
\* queued repeats for ever: hung.
RECURSIVE write_ready(_, _, _, _)
write_ready(st, to_write, written, silence) ==
    IF st.ready = <<>> \/ to_write = 0
    THEN [st |-> st, written |-> written, silence |-> silence]
    ELSE Bind(write_buffer(st, to_write), LAMBDA w :
           IF w.n_frames = 0 /\ ~w.removed
           THEN [st |-> [st EXCEPT !.hung = TRUE], written |-> written, silence |-> silence]
           ELSE write_ready(w.st, to_write - w.n_frames, written + w.n_frames,
                            IF silence > w.n_frames THEN silence - w.n_frames ELSE 0))

\* snd_pcm_mmap_begin(hndl, &my_areas, &offset, &frames): the frames granted
\* are those asked for, cut to the frames available and to the end of the ring
mmap_begin(st, frames) ==
    Min(frames, Min(IF st.stream = "playback" THEN BufferFrames - st.hw ELSE st.hw,
                    BufferFrames - st.off))

\* snd_pcm_mmap_commit(hndl, offset, frames) of a playback device
commit_written(st, frames) ==
    [st EXCEPT !.hw = @ + frames, !.off = (@ + frames) % BufferFrames]

\* spa_alsa_write from the label "again" to the last commit: one mmap pass
\* after the other while buffers are ready and the pass wrote something.
RECURSIVE write_again(_, _, _)
write_again(st, silence0, total_written) ==
    Bind(write_ready(st, mmap_begin(st, BufferFrames), 0,
                     Min(silence0, mmap_begin(st, BufferFrames))),
         LAMBDA r :
           IF r.st.hung
           THEN [st |-> r.st, written |-> 0, total_written |-> total_written]
           ELSE Bind(commit_written(r.st, r.written + r.silence), LAMBDA s1 :
                  IF s1.ready # <<>> /\ r.written + r.silence > 0
                  THEN write_again(s1, r.silence, total_written + r.written + r.silence)
                  ELSE [st |-> s1, written |-> r.written + r.silence,
                        total_written |-> total_written + r.written + r.silence]))

\* spa_alsa_write(state, silence, start), for a state that is not slaved:
\* mmapOk is the outcome of the first snd_pcm_mmap_begin; snd_pcm_start
\* succeeds.
spa_alsa_write(st, silence, start, mmapOk) ==
    IF ~mmapOk THEN st
    ELSE Bind(write_again(st, silence, 0), LAMBDA w :
           IF w.st.hung THEN w.st
           ELSE [w.st EXCEPT !.sample_count = @ + w.total_written,
                             !.alsa_started = @ \/ (w.written > 0 /\ start),
                             !.xfer.write = TRUE, !.xfer.start = start,
                             !.xfer.wrote = w.total_written > 0])

\* Mutation of push_frames: the io area takes every buffer produced.
push_frames_overwrites(st, frames) ==
    IF st.free = <<>>
    THEN [st |-> st, total_frames |-> st.threshold]
    ELSE LET b == Head(st.free)
             total_frames == Min(MaxSize \div st.frame_size, frames)
         IN  [st |-> [st EXCEPT !.free = Tail(@),
                                !.size[b] = total_frames * st.frame_size,
                                !.flags = @ \cup {b},
                                !.io_buffer_id = b, !.io_status = "HAVE_BUFFER"],
              total_frames |-> total_frames]

\* push_frames(state, my_areas, offset, frames)
push_frames(st, frames) ==
    IF st.free = <<>>
    THEN [st |-> st, total_frames |-> st.threshold]
    ELSE LET b == Head(st.free)
             total_frames == Min(MaxSize \div st.frame_size, frames)
         IN  [st |-> IF st.io_status # "HAVE_BUFFER"
                     THEN [st EXCEPT !.free = Tail(@),
                                     !.size[b] = total_frames * st.frame_size,
                                     !.flags = @ \cup {b},
                                     !.io_buffer_id = b, !.io_status = "HAVE_BUFFER"]
                     ELSE [st EXCEPT !.free = Tail(@),
                                     !.size[b] = total_frames * st.frame_size,
                                     !.flags = @ \cup {b},
                                     !.ready = Append(@, b)],
              total_frames |-> total_frames]

\* snd_pcm_mmap_commit(hndl, offset, frames) of a capture device: -EPIPE and
\* nothing committed when more frames are given than are available
commit_read(st, frames) ==
    IF frames > st.hw THEN st
    ELSE [st EXCEPT !.hw = @ - frames, !.off = (@ + frames) % BufferFrames]

\* alsa_on_capture_timeout_event, the loop "while (total_read < to_read)";
\* the mmap calls after the first one succeed.
RECURSIVE read_frames(_, _, _)
read_frames(st, to_read, total_read) ==
    IF ~(total_read < to_read)
    THEN [st EXCEPT !.sample_count = @ + total_read, !.xfer.total = total_read]
    ELSE Bind(mmap_begin(st, to_read - total_read), LAMBDA frames :
           Bind(push_frames(st, frames), LAMBDA p :
             read_frames([commit_read(p.st, p.total_frames)
                             EXCEPT !.xfer.over = @ \/ p.total_frames > frames],
                         IF p.total_frames < frames THEN 0 ELSE to_read,
                         total_read + p.total_frames)))

\* reset_buffers(this)
reset_buffers(st) ==
    IF st.stream = "playback"
    THEN [st EXCEPT !.free = <<>>, !.ready = <<>>, !.flags = Buffers,
                    !.size = [b \in Buffers |-> 0], !.touched = FALSE]
    ELSE [st EXCEPT !.free = [k \in 1 .. NBuffers |-> k - 1], !.ready = <<>>,
                    !.size = [b \in Buffers |-> 0], !.flags = {}]

\* alsa_recover(state, err) after an xrun: snd_pcm_recover prepares the device
\* again, so its ring is empty.
recovered(st) ==
    IF st.hung THEN st
    ELSE [st EXCEPT !.rec = [done |-> TRUE, alsa_started |-> st.alsa_started,
                             dll_bw |-> st.dll_bw, hw |-> st.hw]]

alsa_recover(st, recoverOk) ==
    IF ~recoverOk THEN st
    ELSE IF st.stream = "capture"
    THEN recovered([st EXCEPT !.hw = 0, !.off = 0, !.dll_bw = "MAX",
                              !.alsa_started = TRUE])
    ELSE recovered(spa_alsa_write([st EXCEPT !.hw = 0, !.off = 0, !.dll_bw = "MAX",
                                             !.alsa_started = FALSE],
                                  st.threshold * 2, TRUE, TRUE))

\* update_time caching a sample time one period ahead of the count.
update_time_ahead(st, settled) ==
    [st EXCEPT !.sample_time = st.sample_count + st.threshold,
               !.next_time = [base |-> "dll", frames |-> 0]]

\* Mutation of update_time: a loop that runs at DLL_BW_MIN is set back to
\* DLL_BW_MAX.
update_time_raises(st, settled) ==
    [st EXCEPT !.sample_time = IF st.stream = "capture" THEN @ ELSE st.sample_count,
               !.next_time = [base |-> "dll", frames |-> 0],
               !.dll_bw = IF @ = "MAX" /\ settled THEN "MIN"
                          ELSE IF @ = "MIN" THEN "MAX" ELSE @]

\* update_time(state, nsec, delay, slaved) with slaved = false: a playback
\* device caches the sample count; the loop bandwidth is lowered once
\* DLL_BW_PERIOD has passed since the loop was initialised (settled).
update_time(st, settled) ==
    [st EXCEPT !.sample_time = IF st.stream = "capture" THEN @ ELSE st.sample_count,
               !.next_time = [base |-> "dll", frames |-> 0],
               !.dll_bw = IF @ = "MAX" /\ settled THEN "MIN" ELSE @]

\* get_status(state, &delay): [ok, st, delay]; the second snd_pcm_avail
\* succeeds.
get_status(st, xrun, recoverOk) ==
    IF ~xrun THEN [ok |-> TRUE, st |-> st, delay |-> st.hw]
    ELSE Bind(alsa_recover(st, recoverOk), LAMBDA s1 :
           [ok |-> recoverOk, st |-> s1, delay |-> s1.hw])

\* set_timeout(state, state->next_time)
set_timeout(st) == IF st.slaved THEN st ELSE [st EXCEPT !.armed = TRUE]

\* Mutation of handle_play: an empty ready queue is reported to the callback
\* only, the io area keeps its status.
handle_play_keeps_status(st, xrun, recoverOk, mmapOk, settled) ==
    Bind(get_status(st, xrun, recoverOk), LAMBDA g :
      IF ~g.ok \/ g.st.hung THEN g.st
      ELSE IF g.delay >= g.st.threshold * 2
      THEN [g.st EXCEPT !.xfer.early = TRUE,
                        !.next_time = [base |-> "now", frames |-> g.st.threshold \div 2]]
      ELSE Bind([update_time(g.st, settled) EXCEPT !.xfer.play = TRUE,
                                                   !.xfer.empty = (g.st.ready = <<>>)],
                LAMBDA u :
                  IF u.ready = <<>>
                  THEN [u EXCEPT !.xfer.need = TRUE]
                  ELSE spa_alsa_write(u, 0, TRUE, mmapOk)))

\* handle_play(state); next_time is kept as the time of the wakeup ("now") plus
\* a number of frames, or as what the delay-locked loop made it ("dll")
handle_play(st, xrun, recoverOk, mmapOk, settled) ==
    Bind(get_status(st, xrun, recoverOk), LAMBDA g :
      IF ~g.ok \/ g.st.hung THEN g.st
      ELSE IF g.delay >= g.st.threshold * 2
      THEN [g.st EXCEPT !.xfer.early = TRUE,
                        !.next_time = [base |-> "now", frames |-> g.st.threshold \div 2]]
      ELSE Bind([update_time(g.st, settled) EXCEPT !.xfer.play = TRUE,
                                                   !.xfer.empty = (g.st.ready = <<>>)],
                LAMBDA u :
                  IF u.ready = <<>>
                  THEN [u EXCEPT !.io_status = "NEED_BUFFER", !.xfer.need = TRUE]
                  ELSE spa_alsa_write(u, 0, TRUE, mmapOk)))

\* Mutation of playback_timeout: an early wakeup asks for a buffer.
playback_timeout_early_asks(st, xrun, recoverOk, mmapOk, settled) ==
    Bind(handle_play(st, xrun, recoverOk, mmapOk, settled), LAMBDA h :
      IF h.hung THEN h
      ELSE IF h.xfer.early THEN set_timeout([h EXCEPT !.io_status = "NEED_BUFFER"])
      ELSE set_timeout(h))

\* alsa_on_playback_timeout_event(source)
playback_timeout(st, xrun, recoverOk, mmapOk, settled) ==
    Bind(handle_play(st, xrun, recoverOk, mmapOk, settled), LAMBDA h :
      IF h.hung THEN h ELSE set_timeout(h))

\* alsa_on_capture_timeout_event(source): the timer is armed again unless
\* get_status failed.
capture_timeout(st, xrun, recoverOk, mmapOk, settled) ==
    Bind(get_status(st, xrun, recoverOk), LAMBDA g :
      IF ~g.ok THEN g.st
      ELSE IF g.delay < g.st.threshold
      THEN set_timeout([g.st EXCEPT !.xfer.early = TRUE,
                                    !.next_time = [base |-> "now",
                                                   frames |-> g.st.threshold - g.delay]])
      ELSE IF ~mmapOk THEN update_time(g.st, settled)
      ELSE set_timeout(read_frames([update_time(g.st, settled)
                                       EXCEPT !.xfer.read = TRUE,
                                              !.xfer.to_read = Min(g.delay, g.st.threshold)],
                                   Min(g.delay, g.st.threshold), 0)))

\* spa_alsa_start(state), its end after the device was started: the timer is
\* set, the io area is cleared.
start_done(st) ==
    IF st.hung THEN st
    ELSE [st EXCEPT !.armed = TRUE, !.io_status = "OK",
                    !.io_buffer_id = SPA_ID_INVALID, !.started = TRUE]

\* spa_alsa_start(state)
spa_alsa_start(st, threshold, prepareOk, startOk, mmapOk) ==
    IF st.started THEN st
    ELSE IF ~prepareOk THEN [st EXCEPT !.threshold = threshold, !.slaved = FALSE,
                                       !.dll_bw = "MAX"]
    ELSE Bind(reset_buffers([st EXCEPT !.threshold = threshold, !.slaved = FALSE,
                                       !.dll_bw = "MAX",
                                       !.hw = 0, !.off = 0, !.source = TRUE]),
              LAMBDA s1 :
                IF st.stream = "playback"
                THEN start_done(spa_alsa_write([s1 EXCEPT !.alsa_started = FALSE],
                                               threshold * 2, TRUE, mmapOk))
                ELSE IF ~startOk THEN s1
                ELSE start_done([s1 EXCEPT !.alsa_started = TRUE]))

\* spa_alsa_pause(state), with do_remove_source run on the data loop;
\* snd_pcm_drop empties the device ring.
spa_alsa_pause(st) ==
    IF ~st.started THEN st
    ELSE [st EXCEPT !.source = FALSE, !.armed = FALSE, !.hw = 0, !.off = 0,
                    !.started = FALSE]

Counted(st) == st.sample_count <= MaxSamples

\* The node is started.  A start that resets the queues reclaims every
\* buffer: the consumer of a capture device holds none of them afterwards.
\* The outcome of a device call is told apart only where the handler makes
\* the call.
Start(threshold, prepareOk, startOk, mmapOk) ==
    /\ ~state.hung
    /\ state.started => (threshold = state.threshold /\ prepareOk)
    /\ (state.started \/ ~prepareOk \/ state.stream = "playback") => startOk
    /\ (state.started \/ ~prepareOk \/ state.stream = "capture") => mmapOk
    /\ state' = spa_alsa_start([state EXCEPT !.rec = NoRecovery, !.xfer = NoTransfer],
                                threshold, prepareOk, startOk, mmapOk)
    /\ Counted(state')
    /\ held' = IF state'.source /\ ~state.started /\ prepareOk
               THEN (IF state.stream = "playback" THEN state'.flags ELSE {})
               ELSE held
    /\ UNCHANGED notAlsa

Pause ==
    /\ ~state.hung
    /\ state' = spa_alsa_pause([state EXCEPT !.rec = NoRecovery, !.xfer = NoTransfer])
    /\ UNCHANGED <<held, notAlsa>>

\* The timer of a playback device expires; the hardware has played some of the
\* queued frames since the last wakeup.
PlaybackTimeout(played, xrun, recoverOk, mmapOk, settled) ==
    /\ ~state.hung /\ state.stream = "playback"
    /\ state.source /\ state.armed
    /\ played <= state.hw
    /\ ~xrun => recoverOk
    /\ settled => (xrun \/ state.dll_bw = "MAX")
    /\ ~mmapOk => state.ready # <<>>
    /\ (xrun /\ recoverOk) => played = 0
    /\ (xrun /\ ~recoverOk) => (mmapOk /\ ~settled)
    /\ state' = playback_timeout([state EXCEPT !.hw = @ - played, !.armed = FALSE,
                                                !.rec = NoRecovery, !.xfer = NoTransfer],
                                  xrun, recoverOk, mmapOk, settled)
    /\ Counted(state')
    /\ held' = state'.flags
    /\ UNCHANGED notAlsa

\* The timer of a capture device expires; the hardware has captured some
\* frames since the last wakeup.
CaptureTimeout(captured, xrun, recoverOk, mmapOk, settled) ==
    /\ ~state.hung /\ state.stream = "capture"
    /\ state.source /\ state.armed
    /\ ~xrun => recoverOk
    /\ settled => (xrun \/ state.dll_bw = "MAX")
    /\ (xrun /\ ~recoverOk) => ~settled
    /\ ~mmapOk => (recoverOk /\ (IF xrun THEN 0 ELSE Min(state.hw + captured, BufferFrames))
                                    >= state.threshold)
    /\ state' = capture_timeout([state EXCEPT !.hw = Min(@ + captured, BufferFrames),
                                              !.armed = FALSE, !.rec = NoRecovery,
                                              !.xfer = NoTransfer],
                                 xrun, recoverOk, mmapOk, settled)
    /\ Counted(state')
    /\ UNCHANGED <<held, notAlsa>>

\* The producer of a playback device queues a buffer it holds, filled with
\* size bytes.
QueueBuffer(b, size) ==
    /\ ~state.hung /\ state.stream = "playback"
    /\ b \in held /\ b \in state.flags
    /\ state' = [state EXCEPT !.size[b] = size,
                              !.ready = Append(@, b),
                              !.flags = @ \ {b},
                              !.rec = NoRecovery, !.xfer = NoTransfer]
    /\ held' = held \ {b}
    /\ UNCHANGED notAlsa

\* The consumer of a capture device takes the buffer out of the io area, or
\* the first one of the ready queue.
TakeBuffer ==
    /\ ~state.hung /\ state.stream = "capture"
    /\ \/ /\ state.io_status = "HAVE_BUFFER"
          /\ held' = held \cup {state.io_buffer_id}
          /\ state' = [state EXCEPT !.io_status = "NEED_BUFFER",
                                    !.rec = NoRecovery, !.xfer = NoTransfer]
       \/ /\ state.io_status # "HAVE_BUFFER" /\ state.ready # <<>>
          /\ held' = held \cup {Head(state.ready)}
          /\ state' = [state EXCEPT !.ready = Tail(@),
                                    !.rec = NoRecovery, !.xfer = NoTransfer]
    /\ UNCHANGED notAlsa

\* The consumer of a capture device gives a buffer back; only a buffer marked
\* outbound goes to the free queue.
RecycleBuffer(b) ==
    /\ ~state.hung /\ state.stream = "capture"
    /\ b \in held
    /\ state' = IF b \in state.flags
                THEN [state EXCEPT !.free = Append(@, b), !.flags = @ \ {b},
                                   !.size[b] = 0,
                                   !.rec = NoRecovery, !.xfer = NoTransfer]
                ELSE [state EXCEPT !.rec = NoRecovery, !.xfer = NoTransfer]
    /\ held' = IF b \in state.flags THEN held \ {b} ELSE held
    /\ UNCHANGED notAlsa

AlsaNext ==
    \/ \E th \in {1, 2}, p, s, m \in BOOLEAN : Start(th, p, s, m)
    \/ Pause
    \/ \E n \in 0 .. BufferFrames, x, r, m, t \in BOOLEAN : PlaybackTimeout(n, x, r, m, t)
    \/ \E n \in 0 .. BufferFrames, x, r, m, t \in BOOLEAN : CaptureTimeout(n, x, r, m, t)
    \/ \E b \in Buffers, size \in 0 .. MaxSize : QueueBuffer(b, size)
    \/ TakeBuffer
    \/ \E b \in Buffers : RecycleBuffer(b)

----------------------------------------------------------------------------
(* The two loops of a PCM device: spa_alsa_start and spa_alsa_pause run on the
   main loop, one statement group at a time; the timer handlers, the function
   spa_alsa_pause invokes and the transfers of a slaved device run on the data
   loop, each of them to its end before the next. *)

\* spa_alsa_start from its begin to snd_pcm_prepare: the call returns at once
\* when the device is started, and with the error when snd_pcm_prepare fails
start_prepare(st, threshold, slaved, prepareOk) ==
    IF st.started THEN st
    ELSE [st EXCEPT !.threshold = threshold, !.slaved = slaved, !.dll_bw = "MAX",
                    !.rec = NoRecovery, !.xfer = NoTransfer, !.woken = FALSE,
                    !.hw = IF prepareOk THEN 0 ELSE @,
                    !.off = IF prepareOk THEN 0 ELSE @,
                    !.main = IF prepareOk THEN "start_source" ELSE "idle"]

\* spa_alsa_start: "if (!state->slaved) { ... spa_loop_add_source(...); }"
start_add_source(st) ==
    [st EXCEPT !.source = @ \/ ~st.slaved, !.main = "start_reset"]

\* spa_alsa_start: "reset_buffers(state);"
start_reset(st) == [reset_buffers(st) EXCEPT !.main = "start_device"]

\* The head of spa_alsa_write for a slaved device: the status, the clock update
\* with the master's time, and the rewind of a device that is too far ahead.
\* The write alsa_recover makes after an xrun passes here again; what it caches
\* is replaced by the update below.
slaved_status(st, xrun, recoverOk, settled) ==
    Bind(get_status(st, xrun, recoverOk), LAMBDA g :
      IF ~g.ok \/ g.st.hung THEN [ok |-> FALSE, st |-> g.st]
      ELSE Bind(update_time(g.st, settled), LAMBDA u :
             [ok |-> TRUE,
              st |-> IF g.delay > u.threshold * 2
                     THEN [u EXCEPT !.hw = @ - u.threshold,
                                    !.off = (@ + BufferFrames - u.threshold)
                                              % BufferFrames]
                     ELSE u]))

\* spa_alsa_write(state, silence, start) of a device that may be slaved
spa_alsa_write_slaved(st, silence, start, xrun, recoverOk, mmapOk, settled) ==
    IF ~st.slaved THEN spa_alsa_write(st, silence, start, mmapOk)
    ELSE Bind(slaved_status(st, xrun, recoverOk, settled), LAMBDA h :
           IF ~h.ok THEN h.st ELSE spa_alsa_write(h.st, silence, start, mmapOk))

\* spa_alsa_start: the first write of a playback device, snd_pcm_start of a
\* capture device, whose failure ends the call
start_device(st, startOk, mmapOk) ==
    IF st.stream = "playback"
    THEN [spa_alsa_write_slaved([st EXCEPT !.alsa_started = FALSE], st.threshold * 2,
                                TRUE, FALSE, TRUE, mmapOk, FALSE)
            EXCEPT !.main = "start_timer"]
    ELSE IF ~startOk THEN [st EXCEPT !.main = "idle"]
    ELSE [st EXCEPT !.alsa_started = TRUE, !.main = "start_timer"]

\* Mutation of start_timer: the timer is set for a slaved device too.
start_timer_always(st) ==
    [st EXCEPT !.armed = TRUE, !.main = "start_io"]

\* spa_alsa_start: "if (!state->slaved) { ... timerfd_settime(...); }", the
\* timer expires after a nanosecond
start_timer(st) ==
    [st EXCEPT !.armed = @ \/ ~st.slaved, !.main = "start_io"]

\* spa_alsa_start: the io area is cleared
start_io(st) ==
    [st EXCEPT !.io_status = "OK", !.io_buffer_id = SPA_ID_INVALID,
               !.main = "start_flag"]

\* spa_alsa_start: "state->started = true; return 0;"
start_flag(st) == [st EXCEPT !.started = TRUE, !.main = "idle"]

\* Mutation of do_remove_source: the source is removed, the timer stays set.
do_remove_source_keeps_timer(st) ==
    IF st.slaved THEN [st EXCEPT !.main = "pause_drop"]
    ELSE [st EXCEPT !.source = FALSE, !.main = "pause_drop"]

\* do_remove_source, run by the data loop while spa_alsa_pause waits
do_remove_source(st) ==
    IF st.slaved THEN [st EXCEPT !.main = "pause_drop"]
    ELSE [st EXCEPT !.source = FALSE, !.armed = FALSE, !.main = "pause_drop"]

\* spa_alsa_pause after spa_loop_invoke returned: snd_pcm_drop empties the
\* device ring
pause_drop(st) ==
    [st EXCEPT !.hw = 0, !.off = 0, !.started = FALSE, !.main = "idle"]

\* A timer handler begins: it reads the expiration of the timer when the
\* device is started; a timer that was not read stays readable.
timer_read(st) ==
    [st EXCEPT !.armed = IF st.started THEN FALSE ELSE @,
               !.rec = NoRecovery, !.xfer = NoTransfer, !.woken = TRUE]

\* A device with frames of one byte, opened and not yet started.
LoopsInit ==
    /\ \E st \in {"playback", "capture"} :
         state = [ stream |-> st, frame_size |-> 1, threshold |-> 1,
                   started |-> FALSE, alsa_started |-> FALSE, slaved |-> FALSE,
                   source |-> FALSE, armed |-> FALSE,
                   free |-> <<>>, ready |-> <<>>, ready_offset |-> 0,
                   flags |-> IF st = "playback" THEN Buffers ELSE {},
                   size |-> [b \in Buffers |-> 0],
                   io_status |-> "OK", io_buffer_id |-> SPA_ID_INVALID,
                   sample_count |-> 0, sample_time |-> 0, dll_bw |-> "NONE",
                   rec |-> NoRecovery, hw |-> 0, hung |-> FALSE,
                   off |-> 0, touched |-> FALSE, xfer |-> NoTransfer,
                   next_time |-> NoTime, main |-> "idle", woken |-> FALSE ]
    /\ held = Buffers

StartPrepare(threshold, slaved, prepareOk) ==
    /\ ~state.hung /\ state.main = "idle"
    /\ state.started => (threshold = state.threshold /\ slaved = state.slaved /\ prepareOk)
    /\ state' = start_prepare(state, threshold, slaved, prepareOk)
    /\ UNCHANGED <<held, notAlsa>>

StartAddSource ==
    /\ state.main = "start_source"
    /\ state' = start_add_source(state)
    /\ UNCHANGED <<held, notAlsa>>

StartReset ==
    /\ state.main = "start_reset"
    /\ state' = start_reset(state)
    /\ held' = IF state.stream = "playback" THEN Buffers ELSE {}
    /\ UNCHANGED notAlsa

StartDevice(startOk, mmapOk) ==
    /\ state.main = "start_device"
    /\ state.stream = "playback" => startOk
    /\ state.stream = "capture" => mmapOk
    /\ state' = start_device(state, startOk, mmapOk)
    /\ Counted(state')
    /\ UNCHANGED <<held, notAlsa>>

StartTimer ==
    /\ state.main = "start_timer" /\ ~state.hung
    /\ state' = start_timer(state)
    /\ UNCHANGED <<held, notAlsa>>

StartIo ==
    /\ state.main = "start_io"
    /\ state' = start_io(state)
    /\ UNCHANGED <<held, notAlsa>>

StartFlag ==
    /\ state.main = "start_flag"
    /\ state' = start_flag(state)
    /\ UNCHANGED <<held, notAlsa>>

\* spa_alsa_pause up to spa_loop_invoke(..., true, state): the function is
\* queued on the data loop and the main loop waits for it.
PauseInvoke ==
    /\ ~state.hung /\ state.main = "idle" /\ state.started
    /\ state' = [state EXCEPT !.rec = NoRecovery, !.xfer = NoTransfer,
                              !.main = "pause_invoke"]
    /\ UNCHANGED <<held, notAlsa>>

DoRemoveSource ==
    /\ state.main = "pause_invoke"
    /\ state' = do_remove_source(state)
    /\ UNCHANGED <<held, notAlsa>>

PauseDrop ==
    /\ state.main = "pause_drop"
    /\ state' = pause_drop(state)
    /\ UNCHANGED <<held, notAlsa>>

\* The data loop finds the timer of a playback device readable.
PlaybackWakeup(played, xrun, recoverOk, mmapOk, settled) ==
    /\ ~state.hung /\ state.stream = "playback"
    /\ state.source /\ state.armed
    /\ played <= state.hw
    /\ ~xrun => recoverOk
    /\ settled => (xrun \/ state.dll_bw = "MAX")
    /\ ~mmapOk => state.ready # <<>>
    /\ (xrun /\ recoverOk) => played = 0
    /\ (xrun /\ ~recoverOk) => (mmapOk /\ ~settled)
    /\ state' = playback_timeout([timer_read(state) EXCEPT !.hw = @ - played],
                                  xrun, recoverOk, mmapOk, settled)
    /\ Counted(state')
    /\ held' = state'.flags
    /\ UNCHANGED notAlsa

\* The data loop finds the timer of a capture device readable.
CaptureWakeup(captured, xrun, recoverOk, mmapOk, settled) ==
    /\ ~state.hung /\ state.stream = "capture"
    /\ state.source /\ state.armed
    /\ state.alsa_started \/ captured = 0
    /\ ~xrun => recoverOk
    /\ settled => (xrun \/ state.dll_bw = "MAX")
    /\ (xrun /\ ~recoverOk) => ~settled
    /\ ~mmapOk => (recoverOk /\ (IF xrun THEN 0 ELSE Min(state.hw + captured, BufferFrames))
                                    >= state.threshold)
    /\ state' = capture_timeout([timer_read(state)
                                    EXCEPT !.hw = Min(@ + captured, BufferFrames)],
                                 xrun, recoverOk, mmapOk, settled)
    /\ Counted(state')
    /\ UNCHANGED <<held, notAlsa>>

\* The graph runs a slaved playback device: its node calls
\* spa_alsa_write(state, 0, true) on the data loop.
SlavedWrite(played, xrun, recoverOk, mmapOk, settled) ==
    /\ ~state.hung /\ state.stream = "playback"
    /\ state.started /\ state.slaved
    /\ played <= state.hw
    /\ ~xrun => recoverOk
    /\ settled => (xrun \/ state.dll_bw = "MAX")
    /\ (xrun /\ recoverOk) => played = 0
    /\ (xrun /\ ~recoverOk) => (mmapOk /\ ~settled)
    /\ state' = spa_alsa_write_slaved([state EXCEPT !.hw = @ - played,
                                                    !.rec = NoRecovery,
                                                    !.xfer = NoTransfer],
                                       0, TRUE, xrun, recoverOk, mmapOk, settled)
    /\ Counted(state')
    /\ held' = state'.flags
    /\ UNCHANGED notAlsa

LoopsNext ==
    \/ \E th \in {1, 2}, sl, p \in BOOLEAN : StartPrepare(th, sl, p)
    \/ StartAddSource
    \/ StartReset
    \/ \E s, m \in BOOLEAN : StartDevice(s, m)
    \/ StartTimer
    \/ StartIo
    \/ StartFlag
    \/ PauseInvoke
    \/ DoRemoveSource
    \/ PauseDrop
    \/ \E n \in 0 .. BufferFrames, x, r, m, t \in BOOLEAN : PlaybackWakeup(n, x, r, m, t)
    \/ \E n \in 0 .. BufferFrames, x, r, m, t \in BOOLEAN : CaptureWakeup(n, x, r, m, t)
    \/ \E n \in 0 .. BufferFrames, x, r, m, t \in BOOLEAN : SlavedWrite(n, x, r, m, t)
    \/ \E b \in Buffers : QueueBuffer(b, MaxSize)

----------------------------------------------------------------------------
(* Session-manager objects: an endpoint or a session exported as a global,
   the resources bound to the global and the events they are sent
   (src/src/modules/module-session-manager/endpoint.c and session.c; the two
   files differ in names and in the fields of the info only). *)

\* n_params of an update is at most this
MaxParams == 2

\* a subscribe_params call is given at most this many ids
MaxIds == 2

\* the values an update gives to the fields of the info
InfoValues == {1, 2}

\* errno of a failed allocation
ENOMEM == 12

Resources == {"r1", "r2"}

\* object ids of params
ParamIds == {1, 2}

\* SPA_N_ELEMENTS(data->subscribe_ids)
N_SUBSCRIBE_IDS == 32

UINT32_MAX == U32 - 1

\* A stored param: NULL, a pod that is no object, or an object with an id; key
\* stands for the content a filter looks at.
NullParam == [type |-> "null", id |-> 0, key |-> 0]

ParamValues ==
    { NullParam,
      [type |-> "other", id |-> 0, key |-> 0],
      [type |-> "object", id |-> 1, key |-> 1],
      [type |-> "object", id |-> 1, key |-> 2],
      [type |-> "object", id |-> 2, key |-> 1] }

RECURSIVE SeqsUpTo(_, _)
SeqsUpTo(S, n) ==
    IF n = 0 THEN {<<>>}
    ELSE SeqsUpTo(S, n - 1)
           \cup { Append(s, x) : s \in { t \in SeqsUpTo(S, n - 1) : Len(t) = n - 1 }, x \in S }

ParamLists == SeqsUpTo(ParamValues, MaxParams)

IdLists == SeqsUpTo(ParamIds, MaxIds)

\* a subscribe_params call is given at most this many ids more than the
\* resource has room for
MaxExtraIds == 2

\* Id lists about as long as the room of a resource: n ids, the first k of
\* them a and the others b.
LongIds(n, k, a, b) == [i \in 1 .. n |-> IF i <= k THEN a ELSE b]

LongIdLists ==
    { LongIds(n, k, ab[1], ab[2]) :
        n \in N_SUBSCRIBE_IDS .. (N_SUBSCRIBE_IDS + MaxExtraIds),
        k \in (N_SUBSCRIBE_IDS - 1) .. N_SUBSCRIBE_IDS,
        ab \in {p \in ParamIds \X ParamIds : p[1] # p[2]} }

\* const struct spa_pod *filter: NULL or a filter on the content
NoFilter == 0

Filters == {NoFilter, 1}

\* the bits of info.change_mask; PW_ENDPOINT_CHANGE_MASK_ALL and
\* PW_SESSION_CHANGE_MASK_ALL are all of them
CHANGE_MASK_ALL(kind) ==
    IF kind = "endpoint" THEN {"STREAMS", "SESSION", "PROPS", "PARAMS"}
    ELSE {"PROPS", "PARAMS"}

\* the info given to an update: a change mask and the value of its fields
Infos(kind) ==
    [change_mask : SUBSET CHANGE_MASK_ALL(kind), v : InfoValues]

NoInfo == [change_mask |-> {}, v |-> 0]

\* What the last operation was given and what it sent: the param events and
\* the info events per resource, the errors sent to the resource of the
\* client that owns the object, the value returned, and which realloc of an
\* update was made to fail ("none", "params" or "info").
NoOut(op) ==
    [op |-> op, r |-> "none", id |-> 0, start |-> 0, num |-> 0, filter |-> NoFilter,
     ids |-> <<>>, change_mask |-> {}, info |-> NoInfo, installed |-> <<>>,
     list |-> <<>>,
     params |-> [r \in Resources |-> <<>>], infos |-> [r \in Resources |-> <<>>],
     errors |-> <<>>, ret |-> 0, nomem |-> "none"]

\* struct endpoint / struct session after endpoint_init / session_init, no
\* resource bound.
SmInit ==
    /\ \E kind \in {"endpoint", "session"} :
         owner = [kind |-> kind, n_params |-> 0, params |-> <<>>,
                  info |-> [change_mask |-> {}, n_streams |-> 0, session_id |-> 0,
                            props |-> 0, n_params |-> 0, name |-> 0]]
    /\ rdata = [r \in Resources |-> [n_subscribe_ids |-> 0, subscribe_ids |-> <<>>]]
    /\ resource_list = <<>>
    /\ out = NoOut("init")

\* The same after an update has installed a param list.
SmEnumInit ==
    /\ \E kind \in {"endpoint", "session"}, params \in ParamLists :
         owner = [kind |-> kind, n_params |-> Len(params), params |-> params,
                  info |-> [change_mask |-> {}, n_streams |-> 0, session_id |-> 0,
                            props |-> 0, n_params |-> 0, name |-> 0]]
    /\ rdata = [r \in Resources |-> [n_subscribe_ids |-> 0, subscribe_ids |-> <<>>]]
    /\ resource_list = <<>>
    /\ out = NoOut("update")

SmIdle ==
    /\ owner = [kind |-> "endpoint", n_params |-> 0, params |-> <<>>,
                info |-> [change_mask |-> {}, n_streams |-> 0, session_id |-> 0,
                          props |-> 0, n_params |-> 0, name |-> 0]]
    /\ rdata = [r \in Resources |-> [n_subscribe_ids |-> 0, subscribe_ids |-> <<>>]]
    /\ resource_list = <<>>
    /\ out = NoOut("init")

\* The object, its resources and the record of the operation under way, as one
\* value the functions below pass on.
World == [owner |-> owner, rdata |-> rdata, list |-> resource_list, out |-> out]

\* pw_endpoint_resource_param(resource, seq, id, index, next, param)
resource_param(w, r, seq, id, index, next) ==
    [w EXCEPT !.out.params[r] =
        Append(@, [seq |-> seq, id |-> id, index |-> index, next |-> next])]

\* pw_endpoint_resource_info(resource, &this->info)
resource_info(w, r) ==
    [w EXCEPT !.out.infos[r] = Append(@, w.owner.info)]

\* pw_resource_error(this->client_ep->resource, res, ...)
client_error(w, res) ==
    [w EXCEPT !.out.errors = Append(@, res), !.out.ret = res]

\* Mutation of spa_pod_is_object_id: the id of the object is not compared.
spa_pod_is_object_any(param, id) == param.type = "object"

\* spa_pod_is_object_id(param, id), after the test "param == NULL"
spa_pod_is_object_id(param, id) == param.type = "object" /\ param.id = id

\* spa_pod_is_object(param)
spa_pod_is_object(param) == param.type = "object"

\* spa_pod_filter(&b, &result, param, filter) == 0: without a filter every
\* param passes.
spa_pod_filter(param, filter) == filter = NoFilter \/ param.key = filter

\* "index = next++" of the enum_params loop: the value next has afterwards
enum_step(next) == (next + 1) % U32

\* endpoint_enum_params, the loop "while (true)" from the values next and
\* count have at its head.
RECURSIVE enum_loop(_, _, _, _, _, _, _, _)
enum_loop(w, r, seq, id, num, filter, next0, count) ==
    IF next0 >= w.owner.n_params THEN w
    ELSE IF ~spa_pod_is_object_id(w.owner.params[next0 + 1], id)
    THEN enum_loop(w, r, seq, id, num, filter, enum_step(next0), count)
    ELSE IF ~spa_pod_filter(w.owner.params[next0 + 1], filter)
    THEN enum_loop(w, r, seq, id, num, filter, enum_step(next0), count)
    ELSE Bind(resource_param(w, r, seq, id, next0, enum_step(next0)), LAMBDA w1 :
           IF count + 1 = num THEN w1
           ELSE enum_loop(w1, r, seq, id, num, filter, enum_step(next0), count + 1))

\* endpoint_enum_params(object, seq, id, start, num, filter)
enum_params(w, r, seq, id, start, num, filter) ==
    enum_loop(w, r, seq, id, num, filter, start, 0)

\* endpoint_subscribe_params, the loop over the ids from i on (0-based)
RECURSIVE subscribe_loop(_, _, _, _)
subscribe_loop(w, r, ids, i) ==
    IF i >= w.rdata[r].n_subscribe_ids THEN w
    ELSE Bind([w EXCEPT !.rdata[r].subscribe_ids = Append(@, ids[i + 1])], LAMBDA w1 :
           subscribe_loop(enum_params(w1, r, 1, ids[i + 1], 0, UINT32_MAX, NoFilter),
                          r, ids, i + 1))

\* Mutation of subscribe_params: every id given is stored.
subscribe_params_uncapped(w, r, ids) ==
    subscribe_loop([w EXCEPT !.rdata[r] =
                       [n_subscribe_ids |-> Len(ids), subscribe_ids |-> <<>>]],
                   r, ids, 0)

\* endpoint_subscribe_params(object, ids, n_ids)
subscribe_params(w, r, ids) ==
    subscribe_loop([w EXCEPT !.rdata[r] =
                       [n_subscribe_ids |-> Min(Len(ids), N_SUBSCRIBE_IDS),
                        subscribe_ids |-> <<>>]],
                   r, ids, 0)

\* endpoint_notify_subscribed, the loop over subscribe_ids of one resource
RECURSIVE notify_ids(_, _, _, _, _, _)
notify_ids(w, r, id, index, next, i) ==
    IF i >= w.rdata[r].n_subscribe_ids THEN w
    ELSE notify_ids(IF w.rdata[r].subscribe_ids[i + 1] = id
                    THEN resource_param(w, r, 1, id, index, next)
                    ELSE w,
                    r, id, index, next, i + 1)

\* endpoint_notify_subscribed, the loop over global->resource_list
RECURSIVE notify_resources(_, _, _, _, _)
notify_resources(w, list, id, index, next) ==
    IF list = <<>> THEN w
    ELSE notify_resources(notify_ids(w, Head(list), id, index, next, 0),
                          Tail(list), id, index, next)

\* endpoint_notify_subscribed(this, index, next)
endpoint_notify_subscribed(w, index, next) ==
    IF ~spa_pod_is_object(w.owner.params[index + 1]) THEN w
    ELSE notify_resources(w, w.list, w.owner.params[index + 1].id, index, next)

\* endpoint_update, the loop that installs params[i] and notifies
RECURSIVE install_params(_, _, _)
install_params(w, params, i) ==
    IF i >= w.owner.n_params THEN w
    ELSE install_params(
           endpoint_notify_subscribed(
             [w EXCEPT !.owner.params = Append(@, params[i + 1])], i, i + 1),
           params, i + 1)

\* endpoint_update, "if (change_mask & PW_CLIENT_ENDPOINT_UPDATE_PARAMS)":
\* [ok, w]
update_params(w, params, reallocOk) ==
    IF Len(params) > 0 /\ ~reallocOk
    THEN [ok |-> FALSE, w |-> [w EXCEPT !.owner.params = <<>>, !.owner.n_params = 0]]
    ELSE [ok |-> TRUE,
          w |-> install_params([w EXCEPT !.owner.params = <<>>,
                                         !.owner.n_params = Len(params)],
                               params, 0)]

\* Mutation of update_info_fields: the props are taken whatever the mask.
update_info_fields_props(owner_, info, reallocOk) ==
    [owner_.info EXCEPT !.props = info.v]

\* endpoint_update / session_update, the fields of the stored info taken from
\* the given one
update_info_fields(owner_, info, reallocOk) ==
    [owner_.info EXCEPT
        !.n_streams = IF owner_.kind = "endpoint" /\ "STREAMS" \in info.change_mask
                      THEN info.v ELSE @,
        !.session_id = IF owner_.kind = "endpoint" /\ "SESSION" \in info.change_mask
                       THEN info.v ELSE @,
        !.props = IF "PROPS" \in info.change_mask THEN info.v ELSE @,
        !.n_params = IF "PARAMS" \in info.change_mask
                     THEN (IF reallocOk THEN info.v ELSE 0) ELSE @]

\* Mutation of emit_info: only the first resource of the list is sent the info.
emit_info_first(w, list) ==
    IF list = <<>> THEN w ELSE resource_info(w, Head(list))

\* "spa_list_for_each(resource, &this->global->resource_list, link)
\*      pw_endpoint_resource_info(resource, &this->info);"
RECURSIVE emit_info(_, _)
emit_info(w, list) ==
    IF list = <<>> THEN w
    ELSE emit_info(resource_info(w, Head(list)), Tail(list))

\* Mutation of update_info: the info is sent before the realloc is tested.
update_info_sends_first(w, info, reallocOk) ==
    Bind([w EXCEPT !.owner.info = update_info_fields(w.owner, info, reallocOk),
                   !.owner.info.change_mask = info.change_mask],
         LAMBDA w1 :
           [ok |-> ~("PARAMS" \in info.change_mask /\ ~reallocOk),
            w |-> [emit_info(w1, w1.list) EXCEPT !.owner.info.change_mask = {}]])

\* endpoint_update, "if (change_mask & PW_CLIENT_ENDPOINT_UPDATE_INFO)":
\* [ok, w]
update_info(w, info, reallocOk) ==
    Bind([w EXCEPT !.owner.info = update_info_fields(w.owner, info, reallocOk)],
         LAMBDA w1 :
           IF "PARAMS" \in info.change_mask /\ ~reallocOk
           THEN [ok |-> FALSE, w |-> w1]
           ELSE Bind([w1 EXCEPT !.owner.info.name =
                         IF w1.owner.kind = "endpoint" /\ @ = 0 THEN info.v ELSE @,
                                !.owner.info.change_mask = info.change_mask],
                     LAMBDA w2 :
                       [ok |-> TRUE,
                        w |-> [emit_info(w2, w2.list)
                                 EXCEPT !.owner.info.change_mask = {}]]))

\* endpoint_update(this, change_mask, n_params, params, info)
endpoint_update(w, change_mask, params, info, paramsOk, infoOk) ==
    Bind(IF "PARAMS" \in change_mask THEN update_params(w, params, paramsOk)
         ELSE [ok |-> TRUE, w |-> w],
         LAMBDA p :
           IF ~p.ok THEN client_error(p.w, -ENOMEM)
           ELSE IF "INFO" \notin change_mask THEN p.w
           ELSE Bind(update_info(p.w, info, infoOk), LAMBDA i :
                  IF ~i.ok THEN client_error(i.w, -ENOMEM) ELSE i.w))

\* endpoint_bind(_data, client, permissions, version, id): a new resource has
\* no subscription.
endpoint_bind(w, r, newOk) ==
    IF ~newOk THEN client_error(w, -ENOMEM)
    ELSE Bind([w EXCEPT !.rdata[r] = [n_subscribe_ids |-> 0, subscribe_ids |-> <<>>],
                        !.list = Append(@, r),
                        !.owner.info.change_mask = CHANGE_MASK_ALL(w.owner.kind)],
              LAMBDA w1 :
                [resource_info(w1, r) EXCEPT !.owner.info.change_mask = {}])

\* endpoint_unbind(data): spa_list_remove(&resource->link)
endpoint_unbind(w, r) ==
    [w EXCEPT !.list = SelectSeq(@, LAMBDA x : x # r)]

\* The variables take the values of the world an operation leaves.
Becomes(w) ==
    /\ owner' = w.owner
    /\ rdata' = w.rdata
    /\ resource_list' = w.list
    /\ out' = w.out

\* A client binds to the global.
SmBind(r, newOk) ==
    /\ r \notin Range(resource_list)
    /\ Becomes(endpoint_bind([World EXCEPT !.out = [NoOut("bind") EXCEPT !.r = r]],
                             r, newOk))
    /\ UNCHANGED notSm

\* A resource of the global is destroyed.
SmUnbind(r) ==
    /\ r \in Range(resource_list)
    /\ Becomes(endpoint_unbind([World EXCEPT !.out = [NoOut("unbind") EXCEPT !.r = r]], r))
    /\ UNCHANGED notSm

\* A bound resource calls enum_params.
SmEnumParams(r, id, start, num, filter) ==
    /\ r \in Range(resource_list)
    /\ Becomes(enum_params([World EXCEPT !.out =
                               [NoOut("enum_params") EXCEPT !.r = r, !.id = id,
                                    !.start = start, !.num = num, !.filter = filter]],
                           r, 0, id, start, num, filter))
    /\ UNCHANGED notSm

\* A bound resource calls subscribe_params.
SmSubscribeParams(r, ids) ==
    /\ r \in Range(resource_list)
    /\ Becomes(subscribe_params([World EXCEPT !.out =
                                    [NoOut("subscribe_params") EXCEPT !.r = r, !.ids = ids]],
                                r, ids))
    /\ UNCHANGED notSm

\* The client that owns the object updates it.
SmUpdate(change_mask, params, info, paramsOk, infoOk) ==
    /\ "PARAMS" \notin change_mask => (params = <<>> /\ paramsOk)
    /\ params = <<>> => paramsOk
    /\ "INFO" \notin change_mask => (info = NoInfo /\ infoOk)
    /\ "INFO" \in change_mask => info \in Infos(owner.kind)
    /\ ("INFO" \in change_mask /\ "PARAMS" \notin info.change_mask) => infoOk
    /\ Becomes(endpoint_update([World EXCEPT !.out =
                                   [NoOut("update") EXCEPT !.change_mask = change_mask,
                                        !.info = info, !.installed = params,
                                        !.list = resource_list,
                                        !.nomem = IF ~paramsOk THEN "params"
                                                  ELSE IF ~infoOk THEN "info"
                                                  ELSE "none"]],
                               change_mask, params, info, paramsOk, infoOk))
    /\ UNCHANGED notSm

\* Enumeration of the params an object holds, by one client.
EnumNext ==
    \/ SmBind("r1", TRUE)
    \/ \E id \in ParamIds, start, num \in 0 .. MaxParams, filter \in Filters :
         SmEnumParams("r1", id, start, num, filter)

\* Subscriptions and the notifications of param updates; the content a
\* filter looks at is the same in all params.
NotifyNext ==
    \/ \E r \in Resources : SmBind(r, TRUE)
    \/ \E r \in Resources : SmUnbind(r)
    \/ \E r \in Resources, ids \in IdLists : SmSubscribeParams(r, ids)
    \/ \E params \in SeqsUpTo({p \in ParamValues : p.key # 2}, MaxParams),
          ok \in BOOLEAN :
         SmUpdate({"PARAMS"}, params, NoInfo, ok, TRUE)

\* Subscriptions with about as many ids as a resource has room for, and
\* updates that install objects.
SubscribeNext ==
    \/ \E r \in Resources : SmBind(r, TRUE)
    \/ \E r \in Resources, ids \in LongIdLists : SmSubscribeParams(r, ids)
    \/ \E params \in SeqsUpTo({p \in ParamValues : p.key = 1}, MaxParams) :
         SmUpdate({"PARAMS"}, params, NoInfo, TRUE, TRUE)

\* Updates of the info; an update installs at most one param with it.
InfoNext ==
    \/ \E r \in Resources, ok \in BOOLEAN : SmBind(r, ok)
    \/ \E r \in Resources : SmUnbind(r)
    \/ \E change_mask \in {{"INFO"}, {"PARAMS", "INFO"}, {}},
          params \in {<<>>, <<[type |-> "object", id |-> 1, key |-> 1]>>},
          info \in {i \in Infos("endpoint") : i.v = 1} \cup {NoInfo},
          pOk, iOk \in BOOLEAN :
         SmUpdate(change_mask, params, info, pOk, iOk)

----------------------------------------------------------------------------
(* Format negotiation of the ALSA device: the format table, format
   enumeration, set_format and the channel map clean-up
   (src/spa/plugins/alsa/alsa-utils.c, lines 60-439). *)

\* a device reports at most this many sample formats
MaxFormats == 2

\* rates and channel counts asked for and granted are at most this
MaxRate == 2

\* a channel map has at most this many channels
MaxChannels == 4

\* static const struct format_info format_info[]
format_info ==
    << [spa_format |-> "UNKNOWN",   spa_pformat |-> "UNKNOWN", format |-> "UNKNOWN"],
       [spa_format |-> "F32_LE",    spa_pformat |-> "F32P",    format |-> "FLOAT_LE"],
       [spa_format |-> "F32_BE",    spa_pformat |-> "F32P",    format |-> "FLOAT_BE"],
       [spa_format |-> "S32_LE",    spa_pformat |-> "S32P",    format |-> "S32_LE"],
       [spa_format |-> "S32_BE",    spa_pformat |-> "S32P",    format |-> "S32_BE"],
       [spa_format |-> "S24_32_LE", spa_pformat |-> "S24_32P", format |-> "S24_LE"],
       [spa_format |-> "S24_32_BE", spa_pformat |-> "S24_32P", format |-> "S24_BE"],
       [spa_format |-> "S16_LE",    spa_pformat |-> "S16P",    format |-> "S16_LE"],
       [spa_format |-> "S16_BE",    spa_pformat |-> "S16P",    format |-> "S16_BE"],
       [spa_format |-> "S24_LE",    spa_pformat |-> "S24P",    format |-> "S24_3LE"],
       [spa_format |-> "S24_BE",    spa_pformat |-> "S24P",    format |-> "S24_3BE"],
       [spa_format |-> "S8",        spa_pformat |-> "UNKNOWN", format |-> "S8"],
       [spa_format |-> "U8",        spa_pformat |-> "U8P",     format |-> "U8"],
       [spa_format |-> "U16_LE",    spa_pformat |-> "UNKNOWN", format |-> "U16_LE"],
       [spa_format |-> "U16_BE",    spa_pformat |-> "UNKNOWN", format |-> "U16_BE"],
       [spa_format |-> "U24_32_LE", spa_pformat |-> "UNKNOWN", format |-> "U24_LE"],
       [spa_format |-> "U24_32_BE", spa_pformat |-> "UNKNOWN", format |-> "U24_BE"],
       [spa_format |-> "U24_LE",    spa_pformat |-> "UNKNOWN", format |-> "U24_3LE"],
       [spa_format |-> "U24_BE",    spa_pformat |-> "UNKNOWN", format |-> "U24_3BE"],
       [spa_format |-> "U32_LE",    spa_pformat |-> "UNKNOWN", format |-> "U32_LE"],
       [spa_format |-> "U32_BE",    spa_pformat |-> "UNKNOWN", format |-> "U32_BE"],
       [spa_format |-> "F64_LE",    spa_pformat |-> "F64P",    format |-> "FLOAT64_LE"],
       [spa_format |-> "F64_BE",    spa_pformat |-> "F64P",    format |-> "FLOAT64_BE"] >>

\* the snd_pcm_format_t values of the table
AlsaFormats == { format_info[i].format : i \in 2 .. Len(format_info) }

\* snd_pcm_format_physical_width(format) / 8
physical_bytes(format) ==
    CASE format \in {"S8", "U8"} -> 1
      [] format \in {"S16_LE", "S16_BE", "U16_LE", "U16_BE"} -> 2
      [] format \in {"S24_3LE", "S24_3BE", "U24_3LE", "U24_3BE"} -> 3
      [] format \in {"FLOAT64_LE", "FLOAT64_BE"} -> 8
      [] OTHER -> 4

Accesses == {"MMAP_INTERLEAVED", "MMAP_NONINTERLEAVED"}

EINVAL == 22

\* CHECK: a failed ALSA call makes the function return its negative errno;
\* one errno stands for all of them
SndError == -EPIPE

\* What the last spa_alsa_set_format was given and what it returned.
NoCall ==
    [called |-> FALSE, nearest |-> FALSE, ret |-> 0,
     asked |-> [format |-> "UNKNOWN", channels |-> 0, rate |-> 0],
     info |-> [format |-> "UNKNOWN", channels |-> 0, rate |-> 0],
     before |-> [format |-> "UNKNOWN", channels |-> 0, rate |-> 0, frame_size |-> 0]]

\* A device: what its hardware offers, the format fields of struct state, the
\* ids of the last format enumeration and the last set_format call.
Pcm(fmask, amask, rates, chans) ==
    [fmask |-> fmask, amask |-> amask,
     rate_min |-> rates[1], rate_max |-> rates[2],
     ch_min |-> chans[1], ch_max |-> chans[2],
     format |-> "UNKNOWN", channels |-> 0, rate |-> 0, frame_size |-> 0,
     enumerated |-> FALSE, emitted |-> <<>>, last |-> NoCall]

Ranges(max) == { r \in (1 .. max) \X (1 .. max) : r[1] <= r[2] }

\* A device with any formats and accesses.
FormatInit ==
    /\ \E fmask \in { m \in SUBSET AlsaFormats : Cardinality(m) <= MaxFormats },
          amask \in SUBSET Accesses :
         pcm = Pcm(fmask, amask, <<1, 1>>, <<1, 1>>)
    /\ chmap = [orig |-> <<>>, first |-> <<>>, pos |-> <<>>, passes |-> 0]

\* A device with any range of rates and of channel counts.
RateInit ==
    /\ \E rates \in Ranges(MaxRate), chans \in Ranges(MaxRate) :
         pcm = Pcm({"S16_LE", "S8"}, {"MMAP_INTERLEAVED"}, rates, chans)
    /\ chmap = [orig |-> <<>>, first |-> <<>>, pos |-> <<>>, passes |-> 0]

PcmIdle ==
    /\ pcm = Pcm({"S16_LE"}, {"MMAP_INTERLEAVED"}, <<1, 1>>, <<1, 1>>)
    /\ chmap = [orig |-> <<>>, first |-> <<>>, pos |-> <<>>, passes |-> 0]

\* spa_format_to_alsa, the loop from table entry i on (1-based)
RECURSIVE format_lookup(_, _)
format_lookup(format, i) ==
    IF i > Len(format_info) THEN "UNKNOWN"
    ELSE IF format_info[i].spa_format = format THEN format_info[i].format
    ELSE format_lookup(format, i + 1)

\* Mutation of spa_format_to_alsa: the planar ids are looked up as well.
spa_format_to_alsa_planar(format) ==
    IF format = "UNKNOWN" THEN "UNKNOWN"
    ELSE IF \E i \in 1 .. Len(format_info) : format_info[i].spa_pformat = format
    THEN format_info[CHOOSE i \in 1 .. Len(format_info) :
                       format_info[i].spa_pformat = format].format
    ELSE format_lookup(format, 1)

\* spa_format_to_alsa(format)
spa_format_to_alsa(format) == format_lookup(format, 1)

\* spa_alsa_enum_format, the ids one table entry adds to the format choice;
\* the first id added is written twice, as the default and as an alternative
enum_entry(p, fi, ids) ==
    LET a == IF fi.format \in p.fmask /\ "MMAP_INTERLEAVED" \in p.amask
             THEN (IF ids = <<>> THEN <<fi.spa_format, fi.spa_format>>
                   ELSE Append(ids, fi.spa_format))
             ELSE ids
    IN  IF /\ fi.format \in p.fmask /\ "MMAP_NONINTERLEAVED" \in p.amask
           /\ fi.spa_pformat # "UNKNOWN"
        THEN (IF a = <<>> THEN <<fi.spa_pformat, fi.spa_pformat>>
              ELSE Append(a, fi.spa_pformat))
        ELSE a

\* spa_alsa_enum_format, "for (i = 1, j = 0; i < SPA_N_ELEMENTS(format_info);
\* i++)" from the 0-based index i on
RECURSIVE enum_formats(_, _, _)
enum_formats(p, i, ids) ==
    IF i >= Len(format_info) THEN ids
    ELSE enum_formats(p, i + 1, enum_entry(p, format_info[i + 1], ids))

\* spa_alsa_enum_format(state, seq, 0, 1, NULL): the ids of the format choice
\* of the one format object it emits
spa_alsa_enum_format(p) ==
    [p EXCEPT !.enumerated = TRUE, !.emitted = enum_formats(p, 1, <<>>)]

\* SPA_CLAMP: what snd_pcm_hw_params_set_channels_near and set_rate_near grant
Clamp(v, lo, hi) == IF v < lo THEN lo ELSE IF v > hi THEN hi ELSE v

\* spa_alsa_set_format, the end of the function once channels and rate are
\* settled: the fields of the state are set, then the period and buffer sizes
\* and the hardware parameters
set_format_commit(p, info, format, hwOk) ==
    [p EXCEPT !.format = format, !.channels = info.channels, !.rate = info.rate,
              !.frame_size = info.channels * physical_bytes(format),
              !.last.info = info,
              !.last.ret = IF hwOk THEN 0 ELSE SndError]

\* Mutation of set_format_rate: the state takes the rate before the test.
set_format_rate_early(p, info, format, nearest, hwOk) ==
    IF Clamp(info.rate, p.rate_min, p.rate_max) # info.rate /\ ~nearest
    THEN [p EXCEPT !.rate = Clamp(info.rate, p.rate_min, p.rate_max),
                   !.last.info = info, !.last.ret = -EINVAL]
    ELSE set_format_commit(p, [info EXCEPT !.rate = Clamp(@, p.rate_min, p.rate_max)],
                           format, hwOk)

\* spa_alsa_set_format from "set the stream rate" on
set_format_rate(p, info, format, nearest, hwOk) ==
    IF Clamp(info.rate, p.rate_min, p.rate_max) # info.rate /\ ~nearest
    THEN [p EXCEPT !.last.info = info, !.last.ret = -EINVAL]
    ELSE set_format_commit(p, [info EXCEPT !.rate = Clamp(@, p.rate_min, p.rate_max)],
                           format, hwOk)

\* spa_alsa_set_format from "set the count of channels" on
set_format_channels(p, info, format, nearest, hwOk) ==
    IF Clamp(info.channels, p.ch_min, p.ch_max) # info.channels /\ ~nearest
    THEN [p EXCEPT !.last.ret = -EINVAL]
    ELSE set_format_rate(p, [info EXCEPT !.channels = Clamp(@, p.ch_min, p.ch_max)],
                         format, nearest, hwOk)

\* spa_alsa_set_format(state, fmt, flags)
spa_alsa_set_format(p0, info, nearest, hwOk) ==
    Bind([p0 EXCEPT !.last = [called |-> TRUE, nearest |-> nearest, ret |-> 0,
                              asked |-> info, info |-> info,
                              before |-> [format |-> p0.format, channels |-> p0.channels,
                                          rate |-> p0.rate, frame_size |-> p0.frame_size]]],
         LAMBDA p :
           IF spa_format_to_alsa(info.format) = "UNKNOWN"
           THEN [p EXCEPT !.last.ret = -EINVAL]
           ELSE IF spa_format_to_alsa(info.format) \notin p.fmask
                   \/ "MMAP_INTERLEAVED" \notin p.amask
           THEN [p EXCEPT !.last.ret = SndError]
           ELSE set_format_channels(p, info, spa_format_to_alsa(info.format),
                                    nearest, hwOk))

\* positions of a channel map (enum snd_pcm_chmap_position)
SND_CHMAP_UNKNOWN == 0

SND_CHMAP_MONO == 2

SND_CHMAP_FL == 3

SND_CHMAP_FR == 4

SND_CHMAP_RL == 5

SND_CHMAP_RR == 6

SND_CHMAP_FC == 7

SND_CHMAP_LFE == 8

SND_CHMAP_SL == 9

SND_CHMAP_SR == 10

SND_CHMAP_LAST == 36

\* default_layouts[channels].mask, as the set of the bits that are set
default_layouts(channels) ==
    CASE channels = 0 -> {}
      [] channels = 1 -> {SND_CHMAP_MONO}
      [] channels = 2 -> {SND_CHMAP_FL, SND_CHMAP_FR}
      [] channels = 3 -> {SND_CHMAP_FL, SND_CHMAP_FR, SND_CHMAP_LFE}
      [] channels = 4 -> {SND_CHMAP_FL, SND_CHMAP_FR, SND_CHMAP_RL, SND_CHMAP_RR}
      [] channels = 5 -> {SND_CHMAP_FL, SND_CHMAP_FR, SND_CHMAP_RL, SND_CHMAP_RR,
                          SND_CHMAP_FC}
      [] channels = 6 -> {SND_CHMAP_FL, SND_CHMAP_FR, SND_CHMAP_RL, SND_CHMAP_RR,
                          SND_CHMAP_FC, SND_CHMAP_LFE}
      [] channels = 7 -> {SND_CHMAP_FL, SND_CHMAP_FR, SND_CHMAP_RL, SND_CHMAP_RR,
                          SND_CHMAP_SL, SND_CHMAP_SR, SND_CHMAP_FC}
      [] OTHER -> {SND_CHMAP_FL, SND_CHMAP_FR, SND_CHMAP_RL, SND_CHMAP_RR,
                   SND_CHMAP_SL, SND_CHMAP_SR, SND_CHMAP_FC, SND_CHMAP_LFE}

\* sanitize_map, the first loop from channel i on (0-based); a uint64_t mask is
\* the set of its bits: [pos, mask, dup]
RECURSIVE sanitize_scan(_, _)
sanitize_scan(m, i) ==
    IF i >= Len(m.pos) THEN m
    ELSE Bind(IF m.pos[i + 1] < 0 \/ m.pos[i + 1] > SND_CHMAP_LAST
              THEN [m.pos EXCEPT ![i + 1] = SND_CHMAP_UNKNOWN] ELSE m.pos,
              LAMBDA pos :
                IF pos[i + 1] \in m.mask
                THEN sanitize_scan(
                       [pos |-> [j \in 1 .. Len(pos) |->
                                   IF j <= i + 1 /\ pos[j] = pos[i + 1]
                                   THEN SND_CHMAP_UNKNOWN ELSE pos[j]],
                        mask |-> m.mask \cup {SND_CHMAP_UNKNOWN},
                        dup |-> m.dup \cup {pos[i + 1]}], i + 1)
                ELSE sanitize_scan([pos |-> pos, mask |-> m.mask \cup {pos[i + 1]},
                                    dup |-> m.dup], i + 1))

\* "mask >>= 1"
shift_right(mask) == { b - 1 : b \in mask \ {0} }

\* sanitize_map, "do { mask >>= 1; pos++; } while (mask != 0 && (mask & 1) ==
\* 0)": [mask, pos]
RECURSIVE next_position(_, _)
next_position(mask, pos) ==
    IF shift_right(mask) # {} /\ 0 \notin shift_right(mask)
    THEN next_position(shift_right(mask), pos + 1)
    ELSE [mask |-> shift_right(mask), pos |-> pos + 1]

\* sanitize_map, the second loop from channel i on (0-based)
RECURSIVE sanitize_fill(_, _, _, _)
sanitize_fill(map, mask, pos, i) ==
    IF i >= Len(map) THEN map
    ELSE IF map[i + 1] # SND_CHMAP_UNKNOWN THEN sanitize_fill(map, mask, pos, i + 1)
    ELSE Bind(next_position(mask, pos), LAMBDA n :
           sanitize_fill([map EXCEPT ![i + 1] = IF n.mask # {} THEN n.pos ELSE 0],
                         n.mask, n.pos, i + 1))

\* Mutation of sanitize_map: duplicates are kept in the set of assigned
\* positions.
sanitize_map_keeps_dup(map) ==
    Bind(sanitize_scan([pos |-> map, mask |-> {}, dup |-> {}], 0), LAMBDA m :
      IF SND_CHMAP_UNKNOWN \notin m.mask THEN m.pos
      ELSE sanitize_fill(m.pos, default_layouts(Len(map)) \ m.mask, 0, 0))

\* sanitize_map(map)
sanitize_map(map) ==
    Bind(sanitize_scan([pos |-> map, mask |-> {}, dup |-> {}], 0), LAMBDA m :
      IF SND_CHMAP_UNKNOWN \notin m.mask THEN m.pos
      ELSE sanitize_fill(m.pos, default_layouts(Len(map)) \ (m.mask \ m.dup), 0, 0))

\* A channel map as the device reports it: positions of the default layout of
\* its channel count and UNKNOWN, in any order, with any duplicates.
ChmapInit ==
    /\ pcm = Pcm({"S16_LE"}, {"MMAP_INTERLEAVED"}, <<1, 1>>, <<1, 1>>)
    /\ \E n \in 0 .. MaxChannels :
         \E map \in [1 .. n -> default_layouts(n) \cup {SND_CHMAP_UNKNOWN}] :
            chmap = [orig |-> map, first |-> <<>>, pos |-> map, passes |-> 0]

\* The formats of the device are enumerated.
EnumFormat ==
    /\ ~pcm.enumerated
    /\ pcm' = spa_alsa_enum_format(pcm)
    /\ UNCHANGED <<chmap, notFmt>>

\* A format is set on the device.
SetFormat(format, channels, rate, nearest, hwOk) ==
    /\ pcm' = spa_alsa_set_format(pcm, [format |-> format, channels |-> channels,
                                        rate |-> rate], nearest, hwOk)
    /\ UNCHANGED <<chmap, notFmt>>

\* The channel map is cleaned up, a first and a second time.
Sanitize ==
    /\ chmap.passes < 2
    /\ chmap' = [chmap EXCEPT !.pos = sanitize_map(@),
                              !.first = IF chmap.passes = 0 THEN sanitize_map(chmap.pos)
                                        ELSE @,
                              !.passes = @ + 1]
    /\ UNCHANGED <<pcm, notFmt>>

\* Enumeration, then set_format with an enumerated format.
FormatNext ==
    \/ EnumFormat
    \/ \E format \in Range(pcm.emitted), nearest \in BOOLEAN :
         SetFormat(format, 1, 1, nearest, TRUE)

\* set_format with any rate and channel count.
RateNext ==
    \E format \in {"S16_LE", "S8", "F32P"}, channels, rate \in 1 .. MaxRate,
       nearest, hwOk \in BOOLEAN :
         SetFormat(format, channels, rate, nearest, hwOk)

ChmapNext == Sanitize

----------------------------------------------------------------------------
(* Specifications.  Each one runs one part of the program; the state of the
   other parts stays as constructed. *)

ServerStart == ServerInit /\ ProtoIdle /\ AlsaIdle /\ SmIdle /\ PcmIdle /\ RemoteIdle

ProtoStart == ServerInit /\ ProtoIdle /\ AlsaIdle /\ SmIdle /\ PcmIdle /\ RemoteIdle /\ ~sd_listen

AlsaStart == ServerInit /\ ProtoIdle /\ AlsaInit /\ SmIdle /\ PcmIdle /\ RemoteIdle /\ ~sd_listen

EnumStart == ServerInit /\ ProtoIdle /\ AlsaIdle /\ SmEnumInit /\ PcmIdle /\ RemoteIdle /\ ~sd_listen

\* Info updates of an object no client is bound to, with every change mask
\* and two values for the fields.
FieldsNext ==
    \E info \in Infos("endpoint"), iOk \in BOOLEAN :
        SmUpdate({"INFO"}, <<>>, info, TRUE, iOk)

Idle == ServerInit /\ ProtoIdle /\ AlsaIdle /\ SmIdle /\ RemoteIdle /\ ~sd_listen

FormatStart == Idle /\ FormatInit

RateStart == Idle /\ RateInit

ChmapStart == Idle /\ ChmapInit

SmStart == ServerInit /\ ProtoIdle /\ AlsaIdle /\ SmInit /\ PcmIdle /\ RemoteIdle /\ ~sd_listen

SpecServer == ServerStart /\ [][ServerNext]_vars

SpecProtocol == ProtoStart /\ [][ProtoNext]_vars

SpecAlsa == AlsaStart /\ [][AlsaNext]_vars

LoopsStart == ServerInit /\ ProtoIdle /\ LoopsInit /\ SmIdle /\ PcmIdle /\ RemoteIdle /\ ~sd_listen

SpecLoops == LoopsStart /\ [][LoopsNext]_vars

SpecClients == ProtoStart /\ [][ClientsNext]_vars

RemoteStart == Idle /\ PcmIdle

SpecRemote == RemoteStart /\ [][RemoteNext]_vars

SpecEnum == EnumStart /\ [][EnumNext]_vars

SpecNotify == SmStart /\ [][NotifyNext]_vars

SpecInfo == SmStart /\ [][InfoNext]_vars

SpecSubscribe == SmStart /\ [][SubscribeNext]_vars

SpecFields == SmStart /\ [][FieldsNext]_vars

SpecFormats == FormatStart /\ [][FormatNext]_vars

SpecRates == RateStart /\ [][RateNext]_vars

SpecChmap == ChmapStart /\ [][ChmapNext]_vars

----------------------------------------------------------------------------
(* Claims about the buffer queues of the PCM device (SpecAlsa) *)

CheckedOut == Buffers \ (Range(state.free) \cup Range(state.ready))

Inbox == IF state.io_status = "HAVE_BUFFER" THEN {state.io_buffer_id} ELSE {}

\* C1: every buffer of the device is in exactly one place.  No buffer is
\* linked twice on the free queue or on the ready queue, none is on both, the
\* sizes of the two queues and of the set of checked-out buffers add up to
\* n_buffers, and the buffer in the io area of a capture device is a
\* checked-out one.  The buffers marked outbound are the checked-out ones of
\* a playback device, and the ones off the free queue of a capture device.
C1_BufferInOnePlace ==
    /\ Cardinality(Range(state.free)) = Len(state.free)
    /\ Cardinality(Range(state.ready)) = Len(state.ready)
    /\ Range(state.free) \cap Range(state.ready) = {}
    /\ Len(state.free) + Len(state.ready) + Cardinality(CheckedOut) = NBuffers
    /\ (state.stream = "playback") => (state.free = <<>> /\ CheckedOut = state.flags)
    /\ (state.stream = "capture") =>
         (Inbox \subseteq CheckedOut /\ Range(state.free) \cap state.flags = {})

----------------------------------------------------------------------------
(* Claims about message dispatch (SpecProtocol) *)

\* What process_messages has to decide for a yielded frame y, from the frame,
\* the resources the client had when it was yielded, and the method table.
Missing(y) == y.msg.id \notin y.res

BadOpcode(y) == ~Missing(y) /\ y.msg.opcode >= Len(Methods)

NoFunc(y) == ~Missing(y) /\ y.msg.opcode < Len(Methods) /\ ~Methods[y.msg.opcode + 1].func

Needs(opcode) == Methods[opcode + 1].permissions \cup {"X"}

Denied(y) ==
    /\ ~Missing(y) /\ y.msg.opcode < Len(Methods) /\ Methods[y.msg.opcode + 1].func
    /\ ~(Needs(y.msg.opcode) \subseteq Permissions(y.msg.id))

InvokedSeqs(C) == { C.invoked[k].msg.seq : k \in 1 .. Len(C.invoked) }

ErrorsFor(C, seq) == { k \in 1 .. Len(C.errs) : C.errs[k].seq = seq }

\* C2: a method handler was invoked for a frame only if the frame's id was a
\* resource of the client at that time, the opcode is below n_methods, a
\* demarshal function exists for it, and the resource's permissions contain
\* every bit of the method's required permissions and execute.
C2_InvokeOnlyIfPermitted ==
    \A c \in Clients : \A k \in 1 .. Len(clients[c].invoked) :
        LET e == clients[c].invoked[k] IN
        /\ e.msg.id \in e.res
        /\ e.msg.opcode < Len(Methods)
        /\ Methods[e.msg.opcode + 1].func
        /\ (Methods[e.msg.opcode + 1].permissions \cup {"X"}) \subseteq Permissions(e.msg.id)

\* C2 witness: a handler ran on the resource bound with R and X only, and a
\* method needing W was refused on it.
C2_Witness ==
    \E c \in Clients :
        /\ \E k \in 1 .. Len(clients[c].invoked) : clients[c].invoked[k].msg.id = BoundId
        /\ \E k \in 1 .. Len(clients[c].errs) : clients[c].errs[k].errno = "EACCES"

\* C3: the frames of a connection are yielded in send order, each once; the
\* handlers run in that order, no frame twice; every yielded frame either
\* reached its handler or got an error reply; and while the client lives the
\* frames not yet yielded are still buffered in order, also across busy
\* periods.
C3_DispatchInOrder ==
    \A c \in Clients :
        LET C == clients[c]
            rest == C.conn \o C.sock
        IN  /\ \A i \in 1 .. Len(C.yielded) : C.yielded[i].msg.seq = i
            /\ \A k \in 1 .. Len(C.invoked) :
                 \E i \in 1 .. Len(C.yielded) : C.yielded[i].msg = C.invoked[k].msg
            /\ \A j, k \in 1 .. Len(C.invoked) :
                 (j < k) => C.invoked[j].msg.seq < C.invoked[k].msg.seq
            /\ \A i \in 1 .. Len(C.yielded) :
                 i \in InvokedSeqs(C) \/ ErrorsFor(C, i) # {}
            /\ (C.status = "alive") =>
                 /\ Len(C.yielded) + Len(rest) = C.sent
                 /\ \A k \in 1 .. Len(rest) : rest[k].seq = Len(C.yielded) + k

\* C3 witness: a handler set the client busy, and after the busy period a
\* later frame reached its handler from client_busy_changed.
C3_Witness ==
    \E c \in Clients : \E j, k \in 1 .. Len(clients[c].invoked) :
        /\ j < k
        /\ clients[c].invoked[j].msg.eff = "busy"
        /\ clients[c].yielded[clients[c].invoked[k].msg.seq].drain

\* C4: a frame for a resource the client does not have, or for a method the
\* resource lacks the permissions for, gets exactly one error reply (EINVAL,
\* EACCES), its handler does not run, it does not destroy the client, and the
\* loop goes on to the frames buffered behind it in the same pass.
C4_NonFatalErrors ==
    \A c \in Clients : \A i \in 1 .. Len(clients[c].yielded) :
        LET C == clients[c]
            y == C.yielded[i]
        IN  (Missing(y) \/ Denied(y)) =>
              /\ Cardinality(ErrorsFor(C, y.msg.seq)) = 1
              /\ \A k \in ErrorsFor(C, y.msg.seq) :
                   C.errs[k].errno = IF Missing(y) THEN "EINVAL" ELSE "EACCES"
              /\ y.msg.seq \notin InvokedSeqs(C)
              /\ ~(C.killed_by.why = "frame" /\ C.killed_by.seq = y.msg.seq)
              /\ (i = Len(C.yielded) /\ C.status = "alive") => C.conn = <<>>

\* C4 witness: a denied frame was answered and the frame sent right after it
\* reached its handler, the client being still connected.
C4_Witness ==
    \E c \in Clients : \E i \in 1 .. Len(clients[c].yielded) :
        /\ clients[c].status = "alive"
        /\ Denied(clients[c].yielded[i])
        /\ (i + 1) \in InvokedSeqs(clients[c])

\* C5: a frame with an opcode outside the method table, without a demarshal
\* function, or whose handler returned a negative value gets an EINVAL error
\* on its resource and destroys the client; no frame behind it is yielded or
\* dispatched.
C5_FatalFrames ==
    \A c \in Clients : \A i \in 1 .. Len(clients[c].yielded) :
        LET C == clients[c]
            y == C.yielded[i]
        IN  (BadOpcode(y) \/ NoFunc(y)
               \/ (y.msg.eff = "fail" /\ y.msg.seq \in InvokedSeqs(C))) =>
              /\ \E k \in ErrorsFor(C, y.msg.seq) :
                   C.errs[k].on = y.msg.id /\ C.errs[k].errno = "EINVAL"
              /\ C.status = "destroyed"
              /\ C.killed_by = [why |-> "frame", seq |-> y.msg.seq]
              /\ i = Len(C.yielded)
              /\ \A s \in InvokedSeqs(C) : s <= y.msg.seq

\* C5 witness: a client was destroyed by a frame that had further frames
\* queued behind it.
C5_Witness ==
    \E c \in Clients :
        /\ clients[c].killed_by.why = "frame"
        /\ clients[c].sent > clients[c].killed_by.seq
        /\ Len(clients[c].yielded) = clients[c].killed_by.seq

\* C6: while a client is busy IN is not armed on its source and HUP and ERR
\* stay armed, and no handler was ever invoked while the client was busy.
C6_BusyBlocksDispatch ==
    \A c \in Clients :
        LET C == clients[c]
        IN  /\ (C.status = "alive" /\ C.busy) =>
                 ("IN" \notin C.mask /\ {"HUP", "ERR"} \subseteq C.mask)
            /\ \A k \in 1 .. Len(C.invoked) : ~C.invoked[k].busy

\* C6 witness: a busy client holds a buffered frame that was not dispatched,
\* with OUT armed for its pending output.
C6_Witness ==
    \E c \in Clients :
        /\ clients[c].status = "alive" /\ clients[c].busy
        /\ clients[c].conn # <<>>
        /\ "OUT" \in clients[c].mask

\* C7: a step in which the busy flag of a live client clears arms IN and
\* processes the frames buffered in the connection within that step: when the
\* client is still alive and not busy after it, no buffered frame remains;
\* buffered frames are taken without a socket event; processing stops early
\* only because a handler set the client busy again or the client was
\* destroyed.
C7_DrainOnBusyClear ==
    [][\A c \in Clients :
        LET C == clients[c]
            N == clients'[c]
        IN  (C.status = "alive" /\ C.busy /\ (~N.busy \/ N.yielded # C.yielded)) =>
              /\ (N.status = "alive" /\ ~N.busy) => ("IN" \in N.mask /\ N.conn = <<>>)
              /\ (N.status = "alive" /\ C.conn # <<>>) => Len(N.yielded) > Len(C.yielded)
              /\ \A i \in (Len(C.yielded) + 1) .. Len(N.yielded) : N.yielded[i].drain]_vars

\* C7 witness: a frame was processed from client_busy_changed and the client
\* is not busy, with IN armed and nothing left in the buffer.
C7_Witness ==
    \E c \in Clients :
        /\ clients[c].status = "alive" /\ ~clients[c].busy
        /\ "IN" \in clients[c].mask /\ clients[c].conn = <<>>
        /\ \E i \in 1 .. Len(clients[c].yielded) : clients[c].yielded[i].drain

----------------------------------------------------------------------------
(* Claims about the server socket lock (SpecServer) *)

\* A server considers itself the owner of the name once impl_add_server has
\* returned it: lock acquired, socket bound or adopted, source installed.
Owner(s) == pc[s] = "running"

\* C8: for one socket name at most one server at a time considers itself the
\* owner, under every interleaving of the startup and teardown steps of
\* several servers, and the lock file the owner locked stays linked at
\* "<path>.lock" for as long as the owner runs.
C8_SingleOwnerWithLockFile ==
    /\ \A s, t \in Servers : (s # t) => ~(Owner(s) /\ Owner(t))
    /\ \A s \in Servers : Owner(s) => (lockFile # NoInode /\ lockFile = fd_lock[s])

\* C9: a server started while another server runs under the same name (and
\* keeps running) fails at the lock step, before any bind is attempted; and a
\* server whose startup failed unlinks neither the socket file nor the lock
\* file of another running server.
C9_FailsAtLockAndKeepsFiles ==
    [][\A s \in Servers :
        /\ (rivals[s] # {} /\ pc[s] = "add_socket") => pc'[s] = "add_socket"
        /\ \A t \in Servers \ {s} :
             (~started_ok[s] /\ Owner(t) /\ pc[s] = "unlink_sock" /\ sockFile = t)
                => sockFile' = sockFile
        /\ \A t \in Servers \ {s} :
             (~started_ok[s] /\ Owner(t) /\ pc[s] = "unlink_lock" /\ lockFile = fd_lock[t])
                => lockFile' = lockFile]_vars

\* C10 (as amended): when the teardown of a server that started successfully
\* has finished, it has unlinked the lock file, and it has unlinked the socket
\* path exactly when the listening socket was not passed in by external
\* activation.
C10_TeardownUnlinks ==
    \A s \in Servers :
        (pc[s] = "freed" /\ started_ok[s]) =>
            /\ did_unlink_lock[s]
            /\ did_unlink_sock[s] <=> ~activated[s]

\* C10 witness: an activated server went through its whole teardown, kept the
\* socket path and unlinked the lock file.
C10_Witness ==
    \E s \in Servers :
        /\ pc[s] = "freed" /\ started_ok[s] /\ activated[s]
        /\ did_unlink_lock[s] /\ ~did_unlink_sock[s]

\* C10 (as stated): a successfully started server unlinks socket path and lock
\* file on teardown; with an activation socket it unlinks nothing.
C10_AsStated ==
    \A s \in Servers :
        (pc[s] = "freed" /\ started_ok[s]) =>
            IF activated[s]
            THEN ~did_unlink_sock[s] /\ ~did_unlink_lock[s]
            ELSE did_unlink_sock[s] /\ did_unlink_lock[s]

----------------------------------------------------------------------------
(* Claims about output flushing and client teardown *)

\* C11: a socket event that reports OUT, and neither HUP nor ERR, and whose
\* flush returns "again" with output still pending keeps the connection: the
\* client is alive after the event and OUT is still armed on its source.
C11_FlushAgainKeepsClient ==
    [][\A c \in Clients : \A ev \in Events :
        ( /\ ConnectionData(c, ev, "again")
          /\ "OUT" \in ev /\ ev \cap {"HUP", "ERR"} = {}
          /\ clients[c].pending_out )
        => (clients'[c].status = "alive" /\ "OUT" \in clients'[c].mask)]_vars

\* C12: one run of the before-loop hook attempts a flush on every client of
\* the client list.  A client without pending output, or whose flush succeeds,
\* has nothing pending afterwards and is otherwise unchanged; a client whose
\* flush returns "again" is alive afterwards with OUT armed; a client whose
\* flush returns another error is destroyed and off the list.  This holds for
\* every client of the list, also for those behind a client the hook destroyed.
C12_HookFlushesEveryClient ==
    [][\A fr \in [Clients -> FlushRes] :
        OnBeforeHook(fr) =>
          \A c \in Clients :
            LET C == clients[c]
                N == clients'[c]
            IN  IF c \in Range(client_list)
                THEN CASE ~C.pending_out \/ fr[c] = "ok" ->
                            N = [C EXCEPT !.pending_out = FALSE]
                       [] C.pending_out /\ fr[c] = "again" ->
                            N = [C EXCEPT !.mask = @ \cup {"OUT"}]
                       [] OTHER ->
                            /\ N.status = "destroyed"
                            /\ c \notin Range(client_list')
                ELSE N = C]_vars

\* C12 witness: the hook destroyed the first client of the list for a flush
\* error, and the client behind it on the list has OUT armed for output that
\* is still pending.
C12_Witness ==
    /\ clients["c1"].killed_by.why = "hook"
    /\ client_list = <<"c2">>
    /\ clients["c2"].pending_out /\ "OUT" \in clients["c2"].mask

RECURSIVE HighestSeq(_)
HighestSeq(ys) ==
    IF ys = <<>> THEN 0
    ELSE LET h == HighestSeq(Tail(ys))
         IN  IF Head(ys).msg.seq > h THEN Head(ys).msg.seq ELSE h

-----------------------------------------------------------------------------
(* Claims about the sample clock and xrun recovery of the ALSA device. *)

\* C14: within one start..pause epoch sample_count never decreases, whatever
\* the wakeups (playback, capture, early, xrun recovery) do, and the
\* sample_time cached by update_time never exceeds sample_count.
C14_SampleCountMonotone ==
    /\ [](state.sample_time <= state.sample_count)
    /\ [][(state.started /\ state'.started)
            => state'.sample_count >= state.sample_count]_vars

\* A playback device that cached a sample time in an earlier wakeup and whose
\* last wakeup recovered from an xrun and wrote frames.
C14_Witness ==
    /\ state.stream = "playback" /\ state.started /\ state.rec.done
    /\ state.sample_time > 0
    /\ state.sample_count > state.sample_time

\* C15: when alsa_recover returns after a successful snd_pcm_recover, the DLL
\* has bandwidth DLL_BW_MAX and the device is running: alsa_started is true,
\* and a playback device holds at least 2 * threshold frames (as many as its
\* ring takes).
C15_RecoveryRestartsDevice ==
    state.rec.done =>
        /\ state.rec.dll_bw = "MAX"
        /\ state.rec.alsa_started
        /\ state.stream = "playback"
              => state.rec.hw >= Min(2 * state.threshold, BufferFrames)

-----------------------------------------------------------------------------
(* Claims about the params and the info of endpoints and sessions. *)

\* C17: one call of enum_params(id, start, num, filter) emits at most num
\* param events, for every num, 0 included.
C17_AtMostNumEvents ==
    out.op = "enum_params" => Len(out.params[out.r]) <= out.num

\* The indexes from `from` on whose stored param is an object with the id, in
\* increasing order.
RECURSIVE MatchingFrom(_, _)
MatchingFrom(id, from) ==
    IF from >= owner.n_params THEN <<>>
    ELSE (IF owner.params[from + 1].type = "object" /\ owner.params[from + 1].id = id
          THEN <<from>> ELSE <<>>) \o MatchingFrom(id, from + 1)

\* What a call of enum_params without a filter, made now with the arguments
\* of the last one but starting at start, sends to the resource.
FollowUp(start) ==
    enum_params([World EXCEPT !.out = NoOut("enum_params")],
                out.r, 0, out.id, start, out.num, NoFilter).out.params[out.r]

\* C18: without a filter, enum_params(id, start, num >= 1) emits the first
\* num stored params of the id from start on (all of them when num is large
\* enough), each once, in increasing index order, with next = index + 1, and
\* nothing else; a call that starts at the next of the last event emits the
\* params that follow, none twice and none left out.
C18_EnumVisitsEachOnce ==
    (out.op = "enum_params" /\ out.filter = NoFilter /\ out.num >= 1) =>
        LET E == out.params[out.r]
            M == MatchingFrom(out.id, out.start)
            k == Min(out.num, Len(M))
            F == FollowUp(IF E = <<>> THEN out.start ELSE E[Len(E)].next)
            k2 == Min(out.num, Len(M) - k)
        IN  /\ Len(E) = k
            /\ \A j \in 1 .. k :
                  E[j] = [seq |-> 0, id |-> out.id, index |-> M[j], next |-> M[j] + 1]
            /\ Len(F) = k2
            /\ \A j \in 1 .. k2 : F[j].index = M[k + j]
            /\ \A r \in Resources \ {out.r} : out.params[r] = <<>>

\* An enumeration from 0 with a large num passed over the first stored param
\* and emitted the second.
C18_Witness ==
    /\ out.op = "enum_params" /\ out.filter = NoFilter
    /\ out.start = 0 /\ out.num = MaxParams
    /\ owner.n_params = MaxParams
    /\ Len(out.params[out.r]) = 1
    /\ out.params[out.r][1].index = 1

\* The param notifications an update that installs the list sends to resource
\* r, from index i on: one per object param whose id r is subscribed to.
RECURSIVE Notified(_, _, _)
Notified(r, installed, i) ==
    IF i >= Len(installed) THEN <<>>
    ELSE (IF /\ installed[i + 1].type = "object"
             /\ r \in Range(out.list)
             /\ installed[i + 1].id \in Range(rdata[r].subscribe_ids)
          THEN <<[seq |-> 1, id |-> installed[i + 1].id, index |-> i, next |-> i + 1]>>
          ELSE <<>>) \o Notified(r, installed, i + 1)

\* C19: an update that installs a param list sends each bound resource
\* exactly one notification (id, i, i + 1) for every installed index i whose
\* param is an object with an id the resource is subscribed to, in increasing
\* index order, and nothing to a resource that is not subscribed to the id.
C19_OneNotificationPerParam ==
    (out.op = "update" /\ "PARAMS" \in out.change_mask /\ out.ret = 0) =>
        \A r \in Resources : out.params[r] = Notified(r, out.installed, 0)

\* C20: a successful info update sends the stored info once to every bound
\* resource, with the change mask of the update; a bind sends it once, with
\* the full change mask, to the new resource only; the stored change mask is
\* 0 whenever no operation is under way.
C20_InfoEmittedOnce ==
    /\ owner.info.change_mask = {}
    /\ (out.op = "update" /\ "INFO" \in out.change_mask /\ out.ret = 0) =>
          \A r \in Resources :
            out.infos[r] = IF r \in Range(out.list)
                           THEN <<[owner.info EXCEPT !.change_mask = out.info.change_mask]>>
                           ELSE <<>>
    /\ (out.op = "bind" /\ out.ret = 0) =>
          \A r \in Resources :
            out.infos[r] = IF r = out.r
                           THEN <<[owner.info EXCEPT
                                     !.change_mask = CHANGE_MASK_ALL(owner.kind)]>>
                           ELSE <<>>

\* An info update with a change mask reached two bound resources.
C20_Witness ==
    /\ out.op = "update" /\ "INFO" \in out.change_mask /\ out.ret = 0
    /\ out.info.change_mask # {}
    /\ Len(out.list) = 2
    /\ \A r \in Resources : Len(out.infos[r]) = 1

\* The fields of the stored info that have a change bit keep their value in
\* a step unless the step is an info update whose change mask has the bit.
BitFieldsKept ==
    LET mask == IF out'.op = "update" /\ "INFO" \in out'.change_mask
                THEN out'.info.change_mask ELSE {}
    IN  /\ "STREAMS" \notin mask => owner'.info.n_streams = owner.info.n_streams
        /\ "SESSION" \notin mask => owner'.info.session_id = owner.info.session_id
        /\ "PROPS" \notin mask => owner'.info.props = owner.info.props
        /\ "PARAMS" \notin mask => owner'.info.n_params = owner.info.n_params

\* C21: an info update changes n_streams, session_id, the props and the
\* param infos only when the bit of the field is set in the change mask of
\* the update; name, media class, direction and flags, which have no bit, are
\* taken from the first info update of an endpoint and kept from then on.
C21_FieldsFollowChangeBits ==
    [][/\ BitFieldsKept
       /\ owner'.info.name # owner.info.name =>
             /\ owner.info.name = 0 /\ owner.kind = "endpoint"
             /\ out'.op = "update" /\ "INFO" \in out'.change_mask
             /\ owner'.info.name = out'.info.v]_vars

\* An update with the SESSION bit alone changed session_id and left another
\* value in n_streams than the one it was given.
C21_Witness ==
    /\ out.op = "update" /\ out.info.change_mask = {"SESSION"}
    /\ owner.info.session_id = out.info.v
    /\ owner.info.n_streams \notin {0, out.info.v}
    /\ owner.info.name \notin {0, out.info.v}

\* C21 as stated: no field of the info changes in an update unless its own
\* change bit is set, the fields without a bit included.
C21_AsStated ==
    [][BitFieldsKept /\ owner'.info.name = owner.info.name]_vars

----------------------------------------------------------------------------
(* Claims about format negotiation. *)

\* C22: every format that format enumeration emits for a device, whatever
\* format mask and access mask the device reports, has an ALSA format
\* (spa_format_to_alsa is not UNKNOWN), and set_format does not reject it
\* as invalid.
C22_EnumeratedFormatsSettable ==
    /\ \A F \in Range(pcm.emitted) : spa_format_to_alsa(F) # "UNKNOWN"
    /\ (pcm.last.called /\ pcm.last.asked.format \in Range(pcm.emitted))
          => pcm.last.ret # -EINVAL

\* position i of the map is known and occurs nowhere else in the map
OccursOnce(map, i) ==
    /\ map[i] # SND_CHMAP_UNKNOWN
    /\ \A j \in 1 .. Len(map) : map[j] = map[i] => j = i

\* C23: for a channel map of N channels whose positions are drawn from
\* default_layouts[N] and UNKNOWN, with any duplicates, sanitize_map yields a
\* permutation of default_layouts[N]; a position that occurred exactly once
\* stays in its slot; the other slots are filled from the unused default
\* positions in ascending bit order; a second sanitize_map changes nothing.
C23_SanitizeYieldsDefaultLayout ==
    chmap.passes >= 1 =>
        /\ Len(chmap.first) = Len(chmap.orig)
        /\ Range(chmap.first) = default_layouts(Len(chmap.orig))
        /\ \A i \in 1 .. Len(chmap.orig) :
              OccursOnce(chmap.orig, i) => chmap.first[i] = chmap.orig[i]
        /\ \A i, j \in 1 .. Len(chmap.orig) :
              (i < j /\ ~OccursOnce(chmap.orig, i) /\ ~OccursOnce(chmap.orig, j))
                 => chmap.first[i] < chmap.first[j]
        /\ chmap.passes = 2 => chmap.pos = chmap.first

\* [FL, FR, FR, UNKNOWN] has become [FL, FR, RL, RR] and was sanitized twice
C23_Witness ==
    /\ chmap.orig = <<SND_CHMAP_FL, SND_CHMAP_FR, SND_CHMAP_FR, SND_CHMAP_UNKNOWN>>
    /\ chmap.pos = <<SND_CHMAP_FL, SND_CHMAP_FR, SND_CHMAP_RL, SND_CHMAP_RR>>
    /\ chmap.passes = 2

\* the last set_format call got as far as the channel count: its format is one
\* the device has, with interleaved mmap access
ReachedChannels ==
    /\ pcm.last.called
    /\ spa_format_to_alsa(pcm.last.asked.format) \in pcm.fmask
    /\ "MMAP_INTERLEAVED" \in pcm.amask

\* what the device grants for the channel count and the rate asked for
GrantedChannels == Clamp(pcm.last.asked.channels, pcm.ch_min, pcm.ch_max)

GrantedRate == Clamp(pcm.last.asked.rate, pcm.rate_min, pcm.rate_max)

\* C24: set_format with a rate or a channel count that the device does not
\* grant exactly: with the NEAREST flag the call goes on with the granted
\* value and writes it back to the caller's format; without it the call
\* returns EINVAL and the format, channels, rate and frame_size of the device
\* state are as before the call.
C24_NearestOrEinval ==
    (/\ ReachedChannels
     /\ GrantedChannels # pcm.last.asked.channels \/ GrantedRate # pcm.last.asked.rate)
    => IF pcm.last.nearest
       THEN /\ pcm.last.ret # -EINVAL
            /\ pcm.last.info.channels = GrantedChannels
            /\ pcm.last.info.rate = GrantedRate
            /\ pcm.channels = GrantedChannels
            /\ pcm.rate = GrantedRate
       ELSE /\ pcm.last.ret = -EINVAL
            /\ pcm.last.info = pcm.last.asked
            /\ pcm.format = pcm.last.before.format
            /\ pcm.channels = pcm.last.before.channels
            /\ pcm.rate = pcm.last.before.rate
            /\ pcm.frame_size = pcm.last.before.frame_size

\* a format was set, then a call without NEAREST asked for a rate the device
\* does not have
C24_Witness ==
    /\ ReachedChannels
    /\ ~pcm.last.nearest
    /\ GrantedChannels = pcm.last.asked.channels
    /\ GrantedRate # pcm.last.asked.rate
    /\ pcm.last.ret = -EINVAL
    /\ pcm.last.before.rate > 0
    /\ pcm.last.before.format # spa_format_to_alsa(pcm.last.asked.format)

----------------------------------------------------------------------------
(* Claims about updates that run out of memory. *)

\* C25: when an update of an endpoint or a session fails for lack of memory,
\* the param count concerned (n_params of the param list, or info.n_params)
\* is 0, the update returns -ENOMEM, exactly one ENOMEM error is sent to the
\* resource of the client that owns the object, and no info event is sent to
\* the bound resources for that update.
C25_NoMemUpdate ==
    (out.op = "update" /\ out.nomem # "none") =>
        /\ out.nomem = "params" => owner.n_params = 0
        /\ out.nomem = "info" => owner.info.n_params = 0
        /\ out.ret = -ENOMEM
        /\ out.errors = <<-ENOMEM>>
        /\ \A r \in Resources : out.infos[r] = <<>>

\* the realloc of the info params failed in an update of a session with two
\* resources bound, after the update had installed a param
C25_Witness ==
    /\ out.op = "update" /\ out.nomem = "info"
    /\ owner.kind = "session"
    /\ Len(resource_list) = 2
    /\ owner.n_params = 1
    /\ out.ret = -ENOMEM

----------------------------------------------------------------------------
(* Claims about the timer wakeups of the ALSA device. *)

\* The step is an early wakeup that changed nothing but next_time: the state
\* after it is the state before it but for next_time, the frames the hardware
\* played or captured in between, the timer and the record of the wakeup.
EarlyLeavesState ==
    /\ state' = [state EXCEPT !.next_time = state'.next_time, !.hw = state'.hw,
                              !.armed = state'.armed, !.xfer = state'.xfer,
                              !.rec = state'.rec]
    /\ state'.next_time =
          [base |-> "now",
           frames |-> IF state.stream = "playback" THEN state.threshold \div 2
                      ELSE state.threshold - state'.hw]

\* C26: on an early wakeup (playback: frames buffered in the device >= 2 *
\* threshold; capture: frames available < threshold) in which no xrun was
\* recovered, nothing is transferred: sample_count, the free and ready queues,
\* the io area and the state of the DLL are unchanged and only next_time
\* changes, to now + (threshold / 2) / rate for playback and to
\* now + (threshold - avail) / rate for capture.
C26_EarlyWakeupTransfersNothing ==
    [][(state'.xfer.early /\ ~state'.rec.done) => EarlyLeavesState]_vars

\* an early wakeup of a playback device with a buffer on its ready queue, and
\* no recovery in it
C26_Witness ==
    /\ state.xfer.early /\ ~state.rec.done
    /\ state.stream = "playback" /\ state.ready # <<>>
    /\ state.sample_count > 0
    /\ state.next_time = [base |-> "now", frames |-> state.threshold \div 2]

\* C26 as the specification states it: every early wakeup, also one in which
\* an xrun was recovered.
C26_AsStated ==
    [][state'.xfer.early => EarlyLeavesState]_vars

\* C27: for a started device that is not slaved, every timer wakeup ends with
\* the timer armed again, in the playback handler and in the capture handler,
\* also when the device reports an error during the wakeup: the timer of a
\* started device stays armed until the device is paused.
C27_TimerArmedAgain ==
    [][(/\ state.started /\ ~state.slaved /\ state.armed
        /\ state'.started /\ ~state'.hung)
       => state'.armed]_vars

\* C28: after a playback transfer that was asked to start the device and that
\* committed at least one frame in total, alsa_started is true, whatever the
\* amount of data on the ready queue and however many mmap passes the
\* transfer needed.
C28_StartedOnceFramesCommitted ==
    (state.xfer.write /\ state.xfer.start /\ state.xfer.wrote) => state.alsa_started

\* C29: during a playback transfer the ready queue is consumed in queue order;
\* a buffer is popped, flagged outbound and published as io.buffer_id once,
\* and only after all bytes of its chunk were copied; a buffer copied in part
\* stays at the head of the ready queue with ready_offset recording the
\* progress, and ready_offset is 0 whenever the head buffer is untouched.
C29_ReadyOffsetFollowsHead ==
    /\ []((state.stream = "playback" /\ ~state.hung) =>
            /\ (state.ready # <<>> /\ ~state.touched) => state.ready_offset = 0
            /\ state.touched =>
                  /\ state.ready # <<>>
                  /\ state.ready_offset > 0
                  /\ state.ready_offset < state.size[Head(state.ready)]
            /\ \A b \in Range(state.ready) : b \notin state.flags)
    /\ [][(/\ state.stream = "playback" /\ state.started /\ state'.started
            /\ ~state'.hung /\ state'.xfer.write)
           => \E k \in 0 .. Len(state.ready) :
                 /\ state'.ready = SubSeq(state.ready, k + 1, Len(state.ready))
                 /\ state'.flags = state.flags \cup { state.ready[i] : i \in 1 .. k }
                 /\ k > 0 => state'.io_buffer_id = state.ready[k]]_vars

\* C30: in one capture wakeup the frames committed to the device in each mmap
\* pass are at most the frames that mmap-begin granted for that pass, and
\* sample_count advances by at most to_read = min(avail, threshold) in total,
\* also in a pass that finds the free queue empty and drops frames.
C30_CommitWithinGrant ==
    state.xfer.read =>
        /\ ~state.xfer.over
        /\ state.xfer.total <= state.xfer.to_read

\* The buffers a capture wakeup took from the free queue, in the order taken
Produced == SubSeq(state.free, 1, Len(state.free) - Len(state'.free))

\* C31: when a capture wakeup produces buffers and the io area does not hold a
\* buffer, the io area takes the id of the first one with HAVE_BUFFER and that
\* buffer is on no queue; every other buffer produced goes to the tail of the
\* ready queue, and an io area that holds a buffer is left as it is.
C31_InboxTakesFirst ==
    [][ (state'.xfer.read /\ Len(state'.free) < Len(state.free)) =>
          IF state.io_status # "HAVE_BUFFER"
          THEN /\ state'.io_status = "HAVE_BUFFER"
               /\ state'.io_buffer_id = Head(Produced)
               /\ state'.ready = state.ready \o Tail(Produced)
               /\ Head(Produced) \notin Range(state'.ready) \cup Range(state'.free)
          ELSE /\ state'.io_status = "HAVE_BUFFER"
               /\ state'.io_buffer_id = state.io_buffer_id
               /\ state'.ready = state.ready \o Produced ]_vars

\* A capture wakeup found a buffer in the io area and queued what it produced.
C31_Witness ==
    /\ state.stream = "capture" /\ state.xfer.read /\ state.xfer.total > 0
    /\ state.io_status = "HAVE_BUFFER"
    /\ state.ready # <<>> /\ state.io_buffer_id \notin Range(state.ready)

\* A playback wakeup came to test the ready queue: it was not early.
PlayTested == state'.xfer.play /\ ~state'.hung

\* What a playback wakeup that is not early does, apart from the frames
\* written: with the ready queue empty the io area asks for a buffer and the
\* ready callback is called with NEED_BUFFER; with buffers ready the transfer
\* runs (or fails at its first mmap-begin and changes nothing) and no buffer is
\* asked for.
AsksOrTransfers ==
    IF state'.xfer.empty
    THEN /\ state'.io_status = "NEED_BUFFER" /\ state'.xfer.need
         /\ state'.ready = <<>>
    ELSE /\ ~state'.xfer.need /\ state'.io_status = state.io_status
         /\ \/ state'.xfer.write /\ state'.xfer.start
            \/ state'.sample_count = state.sample_count /\ state'.ready # <<>>

\* The step wrote no frame to the device.
NothingWritten ==
    /\ state'.sample_count = state.sample_count
    /\ ~state'.xfer.write
    /\ state'.hw <= state.hw

\* C32 (amended): a playback wakeup that is not early asks for a buffer when
\* the ready queue is empty and transfers otherwise; when it asks and the
\* status query did not recover from an xrun, no frame is written in it.
C32_AsksWhenReadyEmpty ==
    [][ PlayTested =>
          /\ AsksOrTransfers
          /\ (state'.xfer.empty /\ ~state'.rec.done) => NothingWritten ]_vars

\* A wakeup that was not early and found the ready queue empty.
C32_Witness ==
    /\ state.stream = "playback" /\ ~state.hung
    /\ state.xfer.play /\ state.xfer.empty /\ state.xfer.need
    /\ state.io_status = "NEED_BUFFER" /\ state.armed

\* C32 as stated: no frame is written in any wakeup that asks for a buffer.
C32_AsStated ==
    [][ PlayTested =>
          /\ AsksOrTransfers
          /\ state'.xfer.empty => NothingWritten ]_vars

\* The first timer handler since the last start began runs in this step.
FirstWakeup == ~state.woken /\ state'.woken

\* C33: no timer handler runs while spa_alsa_start is at work: the first
\* wakeup after a start finds the main loop out of the call, started = true,
\* the queues as reset_buffers made them and io.status = OK, and start does not
\* clear an io area that a handler has written since the start began.
C33_NoWakeupDuringStart ==
    [][ /\ FirstWakeup =>
             /\ state.main \in {"idle", "pause_invoke"}
             /\ state.started
             /\ state.io_status = "OK"
             /\ state.stream = "capture" =>
                  (state.ready = <<>> /\ Len(state.free) = NBuffers)
        /\ (state.main = "start_io" /\ state'.main = "start_flag") => ~state.woken
      ]_vars

\* C34: once spa_alsa_pause has returned, and until the next start, no timer
\* handler can run: the timer is not set.  The source is removed and the timer
\* disarmed by do_remove_source while pause waits for it, and the device is
\* dropped and started cleared only after that.
C34_NoWakeupAfterPause ==
    /\ [](  (state.main = "idle" /\ ~state.started) => ~state.armed )
    /\ [][ /\ (state.started /\ ~state'.started) =>
                /\ state.main = "pause_drop"
                /\ ~state.armed
                /\ ~state.slaved => ~state.source
           /\ (state.source /\ ~state'.source) =>
                /\ state.main = "pause_invoke" /\ state'.main = "pause_drop"
                /\ state.started /\ state'.started
                /\ ~state'.armed
         ]_vars

\* A device whose timer handler has run was paused.
C34_Witness ==
    /\ state.main = "idle" /\ ~state.started /\ state.woken
    /\ ~state.slaved /\ ~state.source /\ ~state.armed
    /\ state.sample_count > 0

\* C35: between the calls of spa_alsa_start and spa_alsa_pause the timer source
\* is registered on the data loop exactly when the device is started and not
\* slaved; a start that fails leaves no source behind.
C35_SourceIffStarted ==
    state.main = "idle" => (state.source <=> (state.started /\ ~state.slaved))

\* C36: the timer of a slaved device is never set, whatever start, the
\* transfers, the clock updates and the recoveries of the epoch do, and no
\* step taken while the device is slaved registers the timer source.
C36_SlavedTimerUnused ==
    /\ [](state.slaved => ~state.armed)
    /\ [][ (state.slaved /\ state'.slaved) =>
             /\ ~state'.armed
             /\ state'.source = state.source
             /\ ~state'.woken ]_vars

\* A slaved playback device was started and has written frames, after an xrun
\* too.
C36_Witness ==
    /\ state.slaved /\ state.started /\ state.main = "idle"
    /\ state.xfer.write /\ state.xfer.wrote /\ state.rec.done
    /\ state.sample_count > 2

\* C37: every call of the playback transfer comes to its end, whatever the
\* chunk sizes of the queued buffers: no pass of its inner loop leaves the
\* frames to write and the ready queue as it found them.
C37_TransferTerminates == ~state.hung

\* C38: on the connection of a remote the flushing flag is true exactly when
\* IO_OUT is armed on the current source of the socket, after any sequence of
\* connects, need_flush signals, socket events and disconnects, and every
\* need_flush signal of a live connection leaves IO_OUT armed.
C38_FlushingIffOutArmed ==
    /\ [](remote.source => (remote.flushing <=> "OUT" \in remote.mask))
    /\ [][ (remote'.source /\ remote'.send_seq = remote.send_seq + 1)
             => "OUT" \in remote'.mask ]_vars

\* A step that initialises the delay-locked loop: a start, or a wakeup whose
\* status query recovered from an xrun (or, having initialised the loop, did
\* not come back from the write of the recovery).
DllReset == state'.rec.done \/ ~state.started \/ state'.hung

\* C39: the bandwidth of the delay-locked loop is DLL_BW_MAX or DLL_BW_MIN once
\* it was initialised.  A step leaves it as it is, or sets DLL_BW_MAX when it
\* initialises the loop, or lowers it from DLL_BW_MAX to DLL_BW_MIN in the
\* clock update of a wakeup; it never goes from DLL_BW_MIN to DLL_BW_MAX
\* without the loop being initialised.
C39_BandwidthOnlyLowered ==
    /\ [](state.started => state.dll_bw \in {"MAX", "MIN"})
    /\ [][ \/ state'.dll_bw = state.dll_bw
           \/ state'.dll_bw = "MAX" /\ DllReset
           \/ /\ state.dll_bw = "MAX" /\ state'.dll_bw = "MIN"
              /\ state.started /\ state.armed
              /\ state'.next_time.base = "dll" /\ ~state'.xfer.early ]_vars

\* A loop that was lowered to DLL_BW_MIN has gone through further wakeups.
C39_Witness ==
    /\ state.started /\ state.dll_bw = "MIN" /\ ~state.rec.done
    /\ state.sample_count > 2 /\ state.xfer.play /\ state.xfer.write

\* The ids a resource stores of the ids given: the first min(n_ids, 32).
Stored(ids) == SubSeq(ids, 1, Min(Len(ids), N_SUBSCRIBE_IDS))

\* C40: a resource never has more than 32 subscribed ids; after
\* subscribe_params(ids) its subscription is the first min(n_ids, 32) of the
\* ids given and nothing of an earlier one; every param event a subscribe or
\* an update sends to a resource has an id of its subscription, so an id
\* beyond the 32nd leads to no event.
C40_SubscriptionCapped ==
    /\ \A r \in Resources :
         /\ rdata[r].n_subscribe_ids <= N_SUBSCRIBE_IDS
         /\ Len(rdata[r].subscribe_ids) = rdata[r].n_subscribe_ids
    /\ out.op = "subscribe_params" =>
         /\ rdata[out.r].subscribe_ids = Stored(out.ids)
         /\ rdata[out.r].n_subscribe_ids = Min(Len(out.ids), N_SUBSCRIBE_IDS)
    /\ out.op \in {"subscribe_params", "update"} =>
         \A r \in Resources : \A i \in 1 .. Len(out.params[r]) :
            out.params[r][i].id \in Range(rdata[r].subscribe_ids)

\* A resource subscribed with 33 ids or more, the 33rd of which is the id of
\* a stored param and is none of the first 32: the resource got events for the
\* other id only.
C40_Witness ==
    /\ out.op = "subscribe_params"
    /\ Len(out.ids) > N_SUBSCRIBE_IDS
    /\ out.ids[N_SUBSCRIBE_IDS + 1] \notin Range(rdata[out.r].subscribe_ids)
    /\ \E i \in 1 .. Len(owner.params) :
         /\ owner.params[i].type = "object"
         /\ owner.params[i].id = out.ids[N_SUBSCRIBE_IDS + 1]
    /\ out.params[out.r] # <<>>

====
